---- MODULE Spec2Model ----
(***************************************************************************)
(* The tuning dispatcher of tune / microwave: the MIDI tuners of           *)
(* src/src/tuner/midi.rs (JitMidiTuner, AotMidiTuner, MidiTarget,          *)
(* MidiTuningCreator), the live mode of src/tune-cli/src/live.rs and the   *)
(* MIDI-out backend of src/microwave/src/midi.rs, and of the Magnetron     *)
(* synthesizer the LF sources of src/microwave/src/magnetron/source.rs and *)
(* the waveform compiler of src/microwave/src/magnetron/mod.rs.            *)
(*                                                                         *)
(* Pitches are integers in cents above MIDI note 0 (note n is n * 100), a  *)
(* detuning (Ratio) is a number of cents.  Messages handed to the          *)
(* MidiTunerMessageHandler are records [kind, chan, key, val].             *)
(***************************************************************************)
EXTENDS Integers, Sequences, FiniteSets, TLC

VARIABLES
    target,        \* MidiTarget {first_channel, num_channels}
    pooling_mode,  \* JitTuner.pooling_mode
    creator,       \* MidiTuningCreator: variant, whether its options encode, octave_tunings
    pools,         \* JitTuner.pools: group -> [free, active]
    handled,       \* the messages the last call handed to the handler, in order
    call,          \* the last call: operation, key and result
    sounding,      \* history: the (key, chan, note) with a NoteOn and no NoteOff yet
    tuning,        \* the KeyboardMapping an AotMidiTuner is built for: key -> pitch or None
    aot_tuner,     \* AotMidiTuner: whether it was built, and AotTuner's key -> (channel, note)
    backend,       \* MidiOutBackend: the variant of its tuner, keypress_tracker, curr_program
    pc,            \* LiveOptions::run: where the main thread is
    queue,         \* the mpsc channel between the handler and the output loop
    written,       \* the messages written to the MIDI output, in order
    handed,        \* history: the messages handed to the handler, in order
    midi_in,       \* the raw message the MIDI input delivered last
    magnetron      \* the part of the Magnetron synthesizer under study: an LF source
                   \* automation, a waveform being compiled or an LfSource being read

jitVars == <<pooling_mode, creator, pools, sounding>>
aotVars == <<tuning, aot_tuner>>
liveVars == <<pc, queue, written, handed, midi_in>>
otherVars == <<backend, liveVars, magnetron>>
vars == <<target, handled, call, jitVars, aotVars, backend, liveVars, magnetron>>

-----------------------------------------------------------------------------
(* Bounds of the model *)

MaxKeys == 2

Keys == 1..MaxKeys

\* Pitches the keys are played with: notes 60 and 61 exactly, and note
\* 132 + 30 cents (above the MIDI range, the note letter of 60).
PitchSet == {6000, 6100, 13230}
\* Pitches a sounding key is bent to by update_pitch
BendSet == {6100}
Velocities == {100}
\* num_channels of the target: one channel, where every second key of a
\* group clashes, and two
ChannelCounts == {1, 2}
\* first_channel 15: the second tuner channel wraps around to MIDI channel 0
FirstChannels == {15}

None == 0 - 1000

-----------------------------------------------------------------------------
(* Sequences *)

RECURSIVE SeqSum(_)
SeqSum(s) == IF s = <<>> THEN 0 ELSE Head(s) + SeqSum(Tail(s))

RemoveAt(s, i) == SubSeq(s, 1, i - 1) \o SubSeq(s, i + 1, Len(s))

Range(s) == {s[i] : i \in 1..Len(s)}

-----------------------------------------------------------------------------
(* Messages *)

\* A channel message: its type, its channel and its two data fields
Msg(kind, chan, key, val) ==
    [kind |-> kind, chan |-> chan, key |-> key, val |-> val, prog |-> None]

\* ChannelMessageType::in_channel: None when the channel is no MIDI channel
InChannel(kind, chan, key, val) ==
    IF chan \in 0..15 THEN <<Msg(kind, chan, key, val)>> ELSE <<>>

\* The three control changes of a registered-parameter write
RpnMessage(chan, msb, lsb, value) ==
    <<Msg("ControlChange", chan, 101, msb),
      Msg("ControlChange", chan, 100, lsb),
      Msg("ControlChange", chan, 6, value)>>

\* mts::tuning_program_change: select the tuning program of a channel (RPN 0/3)
TuningProgramChange(chan, tuning_program) == RpnMessage(chan, 0, 3, tuning_program)

\* mts::channel_fine_tuning: detune a channel (RPN 0/1)
ChannelFineTuning(chan, detuning) == RpnMessage(chan, 0, 1, detuning)

\* A Single Note Tuning Change sysex: retunes `key` of tuning program `prog`
SingleNoteTuningChangeMessage(prog, key, target_pitch) ==
    [kind |-> "SingleNoteTuningChange", chan |-> None, key |-> key,
     val |-> target_pitch, prog |-> prog]

\* A Single Note Tuning Change sysex for the whole keyboard of a channel; of
\* the detuned notes it carries, the record keeps how many there are
KeyboardTuningMessage(prog, num_notes) ==
    [kind |-> "SingleNoteTuningChange", chan |-> None, key |-> None,
     val |-> num_notes, prog |-> prog]

\* A Scale/Octave Tuning sysex for one channel; of the twelve detunings it
\* carries, the record keeps the sum
ScaleOctaveTuningMessage(chan, octave_tuning) ==
    [kind |-> "ScaleOctaveTuning", chan |-> chan, key |-> None,
     val |-> SeqSum([i \in 1..12 |-> octave_tuning[i - 1]]), prog |-> None]

\* Note::checked_midi_number: the note as a u8 MIDI number, if it is one
CheckedMidiNumber(note) == IF note \in 0..127 THEN note ELSE None

\* Pitch::find_in_tuning(()): the nearest note and the deviation from it
ApproxNote(pitch) == (pitch + 50) \div 100
ApproxDetuning(pitch) == pitch - 100 * ApproxNote(pitch)

\* Note::pitch
NotePitch(note) == 100 * note

\* Note::letter_and_octave().0
NoteLetter(note) == note % 12

-----------------------------------------------------------------------------
(* MidiTarget *)

\* a channel that does not wrap around at channel 15
midi_channel_NoWrap(t, tuner_channel) == (tuner_channel + t.first_channel) % 256

midi_channel(t, tuner_channel) == ((tuner_channel + t.first_channel) % 256) % 16

Send(t, kind, tuner_channel, key, val) ==
    InChannel(kind, midi_channel(t, tuner_channel), key, val)

\* pitch_bend_message: (semitones / 2 * 8192) as i16, a truncating and
\* saturating cast
pitch_bend_message(detuning) ==
    LET scaled == detuning * 8192
        trunc == IF scaled >= 0 THEN scaled \div 200 ELSE -((-scaled) \div 200)
    IN  IF trunc > 32767 THEN 32767 ELSE IF trunc < -32768 THEN -32768 ELSE trunc

-----------------------------------------------------------------------------
(* JitTuner: a pool of channels per group of notes that must not share a   *)
(* channel.  A pool hands out its free channels, least recently used       *)
(* first; `active` lists the keys that hold a channel, oldest first.       *)

\* PoolingMode::Block and PoolingMode::Stop.  PoolingMode::Ignore, under
\* which sounding keys share a channel, is outside this model.
PoolingModes == {"Block", "Stop"}
CreatorKinds == {"SingleNoteTuningChange", "ScaleOctaveTuning", "ChannelFineTuning",
                 "PitchBend"}

\* the creators whose messages go through the conversion to the MTS format
MtsKinds == {"SingleNoteTuningChange", "ScaleOctaveTuning"}

\* Group::from_note: Note for single note tuning changes, NoteLetter for
\* scale/octave tunings, () for the channel-wide methods
GroupOf(kind, note) ==
    CASE kind = "SingleNoteTuningChange" -> note
      [] kind = "ScaleOctaveTuning" -> NoteLetter(note)
      [] OTHER -> 0

\* JitPool::new: every channel is free, the lowest first
NewPool(num_channels) == [free |-> [i \in 1..num_channels |-> i - 1], active |-> <<>>]

\* the groups the pitches of the model fall into
Groups(kind) == {GroupOf(kind, ApproxNote(pitch)) : pitch \in PitchSet}

\* JitTuner::new: a pool per group (the source creates the pool of a group
\* when the group's first key is registered; an unused pool has no effect)
NewPools(kind, num_channels) == [g \in Groups(kind) |-> NewPool(num_channels)]

WithPool(ps, group, pool) == [ps EXCEPT ![group] = pool]

\* the keys that currently hold a channel
RegisteredKeys(ps) ==
    UNION {{ps[g].active[i].key : i \in 1..Len(ps[g].active)} : g \in DOMAIN ps}

Rejected(ps) ==
    [kind |-> "Rejected", channel |-> None, stopped_note |-> None,
     started_note |-> None, detuning |-> 0, pools |-> ps]

Accepted(channel, stopped_note, started_note, detuning, ps) ==
    [kind |-> "Accepted", channel |-> channel, stopped_note |-> stopped_note,
     started_note |-> started_note, detuning |-> detuning, pools |-> ps]

\* JitPool::key_pressed
KeyPressed(pool, mode, key, note) ==
    LET entry(ch) == [key |-> key, channel |-> ch, note |-> note]
    IN  IF pool.free # <<>>
        THEN [ok |-> TRUE, channel |-> Head(pool.free), stopped |-> None,
              pool |-> [free |-> Tail(pool.free),
                        active |-> Append(pool.active, entry(Head(pool.free)))]]
        ELSE IF mode = "Block" \/ pool.active = <<>>
        THEN [ok |-> FALSE, channel |-> None, stopped |-> None, pool |-> pool]
        ELSE LET old == Head(pool.active)
             IN  [ok |-> TRUE, channel |-> old.channel, stopped |-> old.note,
                  pool |-> [free |-> pool.free,
                            active |-> Append(Tail(pool.active), entry(old.channel))]]

\* JitTuner::register_key
register_key(ps, mode, kind, key, pitch) ==
    LET note == ApproxNote(pitch)
        group == GroupOf(kind, note)
        r == KeyPressed(ps[group], mode, key, note)
    IN  IF r.ok
        THEN Accepted(r.channel, r.stopped, note, ApproxDetuning(pitch),
                      WithPool(ps, group, r.pool))
        ELSE Rejected(WithPool(ps, group, r.pool))

NotFound(ps) == [kind |-> "NotFound", channel |-> None, found_note |-> None, pools |-> ps]

\* JitTuner::access_key
access_key(ps, key) ==
    IF key \notin RegisteredKeys(ps) THEN NotFound(ps)
    ELSE LET g == CHOOSE g \in DOMAIN ps : \E i \in 1..Len(ps[g].active) : ps[g].active[i].key = key
             i == CHOOSE i \in 1..Len(ps[g].active) : ps[g].active[i].key = key
         IN  [kind |-> "Found", channel |-> ps[g].active[i].channel,
              found_note |-> ps[g].active[i].note, pools |-> ps]

\* JitTuner::deregister_key (JitPool::key_released): the key's channel
\* becomes the most recently used free channel of its pool
deregister_key(ps, key) ==
    IF key \notin RegisteredKeys(ps) THEN NotFound(ps)
    ELSE LET g == CHOOSE g \in DOMAIN ps : \E i \in 1..Len(ps[g].active) : ps[g].active[i].key = key
             i == CHOOSE i \in 1..Len(ps[g].active) : ps[g].active[i].key = key
             e == ps[g].active[i]
             pool == [free |-> Append(ps[g].free, e.channel),
                      active |-> RemoveAt(ps[g].active, i)]
         IN  [kind |-> "Found", channel |-> e.channel, found_note |-> e.note,
              pools |-> WithPool(ps, g, pool)]

-----------------------------------------------------------------------------
(* MidiTuningCreator *)

tuning_program(tuner_channel, first_tuning_program) ==
    ((tuner_channel + first_tuning_program) % 256) % 128

DefaultOctaveTuning == [letter \in 0..11 |-> 0]

\* MidiTuningCreator::create: the tuning messages for `note` detuned by
\* `detuning` on `tuner_channel`, and the creator afterwards.  `encodes`
\* is the outcome of the conversion to the MTS format (Ok or Err) under
\* the options of this tuner.
Create(cr, t, tuner_channel, note, detuning) ==
    LET chan == midi_channel(t, tuner_channel) IN
    CASE cr.kind = "SingleNoteTuningChange" ->
           LET prog == tuning_program(tuner_channel, cr.first_tuning_program)
           IN  [msgs |-> IF cr.encodes
                         THEN TuningProgramChange(chan, prog)
                              \o <<SingleNoteTuningChangeMessage(
                                      prog, note, NotePitch(note) + detuning)>>
                         ELSE <<>>,
                creator |-> cr]
      [] cr.kind = "ScaleOctaveTuning" ->
           LET old == IF tuner_channel \in DOMAIN cr.octave_tunings
                      THEN cr.octave_tunings[tuner_channel]
                      ELSE DefaultOctaveTuning
               new == [old EXCEPT ![NoteLetter(note)] = detuning]
               tunings == [c \in DOMAIN cr.octave_tunings \cup {tuner_channel} |->
                              IF c = tuner_channel THEN new ELSE cr.octave_tunings[c]]
           IN  [msgs |-> IF cr.encodes
                         THEN <<ScaleOctaveTuningMessage(chan, new)>>
                         ELSE <<>>,
                creator |-> [cr EXCEPT !.octave_tunings = tunings]]
      [] cr.kind = "ChannelFineTuning" ->
           [msgs |-> ChannelFineTuning(chan, detuning), creator |-> cr]
      [] OTHER ->
           [msgs |-> InChannel("PitchBendChange", chan, None, pitch_bend_message(detuning)),
            creator |-> cr]

-----------------------------------------------------------------------------
(* JitMidiTuner *)

\* note_on without the NoteOff of the note it stops
JitNoteOnEffect_NoStop(t, cr, r, velocity) ==
    IF r.kind = "Accepted"
    THEN LET c == Create(cr, t, r.channel, r.started_note, r.detuning)
             on == IF CheckedMidiNumber(r.started_note) # None
                   THEN Send(t, "NoteOn", r.channel, r.started_note, velocity)
                   ELSE <<>>
         IN  [msgs |-> c.msgs \o on, creator |-> c.creator]
    ELSE [msgs |-> <<>>, creator |-> cr]

\* note_on that starts the note before it tunes the channel
JitNoteOnEffect_NoteOnFirst(t, cr, r, velocity) ==
    IF r.kind = "Accepted"
    THEN LET off == IF r.stopped_note # None /\ CheckedMidiNumber(r.stopped_note) # None
                    THEN Send(t, "NoteOff", r.channel, r.stopped_note, velocity)
                    ELSE <<>>
             c == Create(cr, t, r.channel, r.started_note, r.detuning)
             on == IF CheckedMidiNumber(r.started_note) # None
                   THEN Send(t, "NoteOn", r.channel, r.started_note, velocity)
                   ELSE <<>>
         IN  [msgs |-> off \o on \o c.msgs, creator |-> c.creator]
    ELSE [msgs |-> <<>>, creator |-> cr]

\* note_on that stops the old note only after it retuned the channel
JitNoteOnEffect_StopLate(t, cr, r, velocity) ==
    IF r.kind = "Accepted"
    THEN LET off == IF r.stopped_note # None /\ CheckedMidiNumber(r.stopped_note) # None
                    THEN Send(t, "NoteOff", r.channel, r.stopped_note, velocity)
                    ELSE <<>>
             c == Create(cr, t, r.channel, r.started_note, r.detuning)
             on == IF CheckedMidiNumber(r.started_note) # None
                   THEN Send(t, "NoteOn", r.channel, r.started_note, velocity)
                   ELSE <<>>
         IN  [msgs |-> c.msgs \o off \o on, creator |-> c.creator]
    ELSE [msgs |-> <<>>, creator |-> cr]

\* note_on that tunes the channel of a key it rejects
JitNoteOnEffect_TuneRejected(t, cr, r, velocity) ==
    LET c == Create(cr, t, IF r.channel = None THEN 0 ELSE r.channel,
                    IF r.started_note = None THEN 60 ELSE r.started_note, r.detuning)
    IN  IF r.kind = "Accepted"
        THEN LET off == IF r.stopped_note # None /\ CheckedMidiNumber(r.stopped_note) # None
                        THEN Send(t, "NoteOff", r.channel, r.stopped_note, velocity)
                        ELSE <<>>
                 on == IF CheckedMidiNumber(r.started_note) # None
                       THEN Send(t, "NoteOn", r.channel, r.started_note, velocity)
                       ELSE <<>>
             IN  [msgs |-> off \o c.msgs \o on, creator |-> c.creator]
        ELSE [msgs |-> c.msgs, creator |-> c.creator]

\* JitMidiTuner::note_on, after register_key returned r
JitNoteOnEffect(t, cr, r, velocity) ==
    IF r.kind = "Accepted"
    THEN LET off == IF r.stopped_note # None /\ CheckedMidiNumber(r.stopped_note) # None
                    THEN Send(t, "NoteOff", r.channel, r.stopped_note, velocity)
                    ELSE <<>>
             c == Create(cr, t, r.channel, r.started_note, r.detuning)
             on == IF CheckedMidiNumber(r.started_note) # None
                   THEN Send(t, "NoteOn", r.channel, r.started_note, velocity)
                   ELSE <<>>
         IN  [msgs |-> off \o c.msgs \o on, creator |-> c.creator]
    ELSE [msgs |-> <<>>, creator |-> cr]

\* note_off that releases the key without a NoteOff
JitNoteOffEffect_Silent(t, r, velocity) == <<>>

\* note_off that also resets the pitch bend of the channel
JitNoteOffEffect_Revert(t, r, velocity) ==
    IF r.kind = "Found" /\ CheckedMidiNumber(r.found_note) # None
    THEN Send(t, "NoteOff", r.channel, r.found_note, velocity)
         \o Send(t, "PitchBendChange", r.channel, None, 0)
    ELSE <<>>

\* JitMidiTuner::note_off, after deregister_key returned r
JitNoteOffEffect(t, r, velocity) ==
    IF r.kind = "Found" /\ CheckedMidiNumber(r.found_note) # None
    THEN Send(t, "NoteOff", r.channel, r.found_note, velocity)
    ELSE <<>>

\* update_pitch that bends the first channel when the key is not found
JitUpdatePitchEffect_BendFirst(t, cr, r, pitch) ==
    IF r.kind = "Found"
    THEN Create(cr, t, r.channel, r.found_note, pitch - NotePitch(r.found_note))
    ELSE Create(cr, t, 0, ApproxNote(pitch), ApproxDetuning(pitch))

\* JitMidiTuner::update_pitch, after access_key returned r
JitUpdatePitchEffect(t, cr, r, pitch) ==
    IF r.kind = "Found"
    THEN Create(cr, t, r.channel, r.found_note, pitch - NotePitch(r.found_note))
    ELSE [msgs |-> <<>>, creator |-> cr]

\* JitMidiTuner::key_pressure, after access_key returned r
JitKeyPressureEffect(t, r, pressure) ==
    IF r.kind = "Found" /\ CheckedMidiNumber(r.found_note) # None
    THEN Send(t, "PolyphonicKeyPressure", r.channel, r.found_note, pressure)
    ELSE <<>>

\* MidiTarget::send_monophonic_message
RECURSIVE SendMonophonic(_, _, _)
SendMonophonic(t, m, channel) ==
    IF channel >= t.num_channels THEN <<>>
    ELSE Send(t, m.kind, channel, m.key, m.val) \o SendMonophonic(t, m, channel + 1)

\* a broadcast that leaves out the first channel
send_monophonic_message_FromOne(t, m) == SendMonophonic(t, m, 1)

send_monophonic_message(t, m) == SendMonophonic(t, m, 0)

\* the history of sounding notes after one more message of a call for `key`
SoundingAfter(snd, key, m) ==
    CASE m.kind = "NoteOn" -> snd \cup {[key |-> key, chan |-> m.chan, note |-> m.key]}
      [] m.kind = "NoteOff" -> {s \in snd : ~(s.chan = m.chan /\ s.note = m.key)}
      [] OTHER -> snd

RECURSIVE SoundingAfterAll(_, _, _)
SoundingAfterAll(snd, key, msgs) ==
    IF msgs = <<>> THEN snd
    ELSE SoundingAfterAll(SoundingAfter(snd, key, Head(msgs)), key, Tail(msgs))

Call(op, key, result, channel, note, stopped) ==
    [op |-> op, key |-> key, result |-> result, channel |-> channel,
     note |-> note, stopped |-> stopped]

MonoMessages ==
    {[kind |-> "ControlChange", key |-> 7, val |-> 100],
     [kind |-> "PitchBendChange", key |-> None, val |-> 8192]}

NoAotTuner == [state |-> "none", kind |-> "none", map |-> <<>>]

\* MidiOutBackend as `create` returns it
NewBackend ==
    [tuner |-> "None", keypress_tracker |-> <<>>, curr_program |-> 0,
     unreachable |-> FALSE]

\* no MidiOutBackend in use and LiveOptions::run not entered
\* no part of the Magnetron synthesizer is under study
NoMagnetron == [part |-> "None"]

IdleOther ==
    /\ backend = NewBackend
    /\ pc = "idle"
    /\ queue = <<>>
    /\ written = <<>>
    /\ handed = <<>>
    /\ midi_in = <<>>
    /\ magnetron = NoMagnetron

JitInit ==
    /\ target \in [first_channel : FirstChannels, num_channels : ChannelCounts]
    /\ pooling_mode \in PoolingModes
    /\ creator \in [kind : CreatorKinds, encodes : BOOLEAN, first_tuning_program : {0},
                     octave_tunings : {<<>>}]
    /\ creator.kind \in MtsKinds \/ creator.encodes
    /\ pools = NewPools(creator.kind, target.num_channels)
    /\ handled = <<>>
    /\ call = Call("new", None, "Ok", None, None, None)
    /\ sounding = {}
    /\ tuning = <<>>
    /\ aot_tuner = NoAotTuner
    /\ IdleOther

\* note_on for a key that is not registered: a key is released before it
\* is pressed again
JitNoteOn(key, pitch, velocity) ==
    /\ key \notin RegisteredKeys(pools)
    /\ LET r == register_key(pools, pooling_mode, creator.kind, key, pitch)
           e == JitNoteOnEffect(target, creator, r, velocity)
       IN  /\ pools' = r.pools
           /\ creator' = e.creator
           /\ handled' = e.msgs
           /\ call' = Call("note_on", key, r.kind, r.channel, r.started_note, r.stopped_note)
           /\ sounding' = SoundingAfterAll(sounding, key, e.msgs)
    /\ UNCHANGED <<target, pooling_mode, aotVars, otherVars>>

JitNoteOff(key, velocity) ==
    /\ LET r == deregister_key(pools, key)
           msgs == JitNoteOffEffect(target, r, velocity)
       IN  /\ pools' = r.pools
           /\ handled' = msgs
           /\ call' = Call("note_off", key, r.kind, r.channel, r.found_note, None)
           /\ sounding' = SoundingAfterAll(sounding, key, msgs)
    /\ UNCHANGED <<target, pooling_mode, creator, aotVars, otherVars>>

JitUpdatePitch(key, pitch) ==
    /\ LET r == access_key(pools, key)
           e == JitUpdatePitchEffect(target, creator, r, pitch)
       IN  /\ creator' = e.creator
           /\ handled' = e.msgs
           /\ call' = Call("update_pitch", key, r.kind, r.channel, r.found_note, None)
    /\ UNCHANGED <<target, pooling_mode, pools, sounding, aotVars, otherVars>>

JitKeyPressure(key, pressure) ==
    /\ LET r == access_key(pools, key)
       IN  /\ handled' = JitKeyPressureEffect(target, r, pressure)
           /\ call' = Call("key_pressure", key, r.kind, r.channel, r.found_note, None)
    /\ UNCHANGED <<target, jitVars, aotVars, otherVars>>

JitSendMonophonicMessage(m) ==
    /\ handled' = send_monophonic_message(target, m)
    /\ call' = Call("send_monophonic_message", None, "Ok", None, None, None)
    /\ UNCHANGED <<target, jitVars, aotVars, otherVars>>

JitNext ==
    \/ \E key \in Keys, pitch \in PitchSet, velocity \in Velocities :
          JitNoteOn(key, pitch, velocity)
    \/ \E key \in Keys, velocity \in Velocities : JitNoteOff(key, velocity)
    \/ \E key \in Keys, pitch \in BendSet : JitUpdatePitch(key, pitch)
    \/ \E key \in Keys : JitKeyPressure(key, 64)
    \/ \E m \in MonoMessages : JitSendMonophonicMessage(m)

SpecJit == JitInit /\ [][JitNext]_vars

-----------------------------------------------------------------------------
(* Properties of JitMidiTuner, checked under SpecJit *)

IsMidiNote(note) == note \in 0..127

\* the messages a MidiTuningCreator hands out
IsTuning(m) ==
    m.kind \in {"SingleNoteTuningChange", "ScaleOctaveTuning", "ControlChange",
                "PitchBendChange"}

\* the MIDI channel of the tuner channel of the last call
CallChan == (call.channel + target.first_channel) % 16

AcceptedNoteOn == call.op = "note_on" /\ call.result = "Accepted"

\* whether the creator of this tuner produces a tuning message at all
TuningBuilt == creator.kind \notin MtsKinds \/ creator.encodes

Positions(kind) == {i \in 1..Len(handled) : handled[i].kind = kind}
TuningPositions == {i \in 1..Len(handled) : IsTuning(handled[i])}

C2_TuningBeforeNoteOn ==
    AcceptedNoteOn =>
        /\ TuningPositions # {}
        /\ \A j \in Positions("NoteOn") : \E i \in TuningPositions : i < j

\* C2, amended: an accepted note_on never hands out a tuning message after
\* its NoteOn, its tuning messages are those of the assigned channel, and
\* there is one whenever the creator can build it (always for channel fine
\* tuning and pitch bend, for the MTS messages when the conversion succeeds).
C2_NoTuningAfterNoteOn ==
    AcceptedNoteOn =>
        /\ TuningBuilt => TuningPositions # {}
        /\ ~TuningBuilt => TuningPositions = {}
        /\ \A j \in Positions("NoteOn") : \A i \in TuningPositions : i < j
        /\ \A i \in TuningPositions :
              IF handled[i].kind = "SingleNoteTuningChange"
              THEN handled[i].prog = (call.channel + creator.first_tuning_program) % 128
              ELSE handled[i].chan = CallChan

\* an accepted note_on handed out a tuning update and then a NoteOn
C2_Witness ==
    AcceptedNoteOn /\ TuningPositions # {} /\ Positions("NoteOn") # {}

Reused == AcceptedNoteOn /\ pooling_mode = "Stop" /\ call.stopped # None

\* C3, as claimed: a note_on that reuses an occupied channel hands out
\* NoteOff(old note), the tuning update, NoteOn(new note), in this order
\* and on the same channel.
C3_StopOrder ==
    Reused =>
        /\ Len(handled) >= 3
        /\ handled[1] = Msg("NoteOff", CallChan, call.stopped, 100)
        /\ handled[Len(handled)] = Msg("NoteOn", CallChan, call.note, 100)
        /\ TuningPositions = 2..(Len(handled) - 1)

\* C3, amended: a note_on that reuses an occupied channel hands out, in
\* this order and for the same channel, the NoteOff of the old note if that
\* note is a MIDI note (0..127), the tuning update if the creator can build
\* it, and the NoteOn of the new note if that note is a MIDI note.
C3_StopOrderInRange ==
    Reused =>
        LET off == IF IsMidiNote(call.stopped)
                   THEN <<Msg("NoteOff", CallChan, call.stopped, 100)>> ELSE <<>>
            on == IF IsMidiNote(call.note)
                  THEN <<Msg("NoteOn", CallChan, call.note, 100)>> ELSE <<>>
            between == SubSeq(handled, Len(off) + 1, Len(handled) - Len(on))
        IN  /\ Len(handled) >= Len(off) + Len(on)
            /\ SubSeq(handled, 1, Len(off)) = off
            /\ SubSeq(handled, Len(handled) - Len(on) + 1, Len(handled)) = on
            /\ \A i \in 1..Len(between) :
                  /\ IsTuning(between[i])
                  /\ between[i].kind # "SingleNoteTuningChange" => between[i].chan = CallChan
            /\ TuningBuilt <=> between # <<>>

\* a channel was reused and all three kinds of message were handed out
C3_Witness ==
    Reused /\ Positions("NoteOff") # {} /\ TuningPositions # {} /\ Positions("NoteOn") # {}

\* C4: under Block, a note_on that is rejected hands out no message and
\* leaves the registered keys, the channel assignments and the tuning state
\* as they were.
C4_BlockDropsSilently ==
    [][(call'.op = "note_on" /\ call'.result = "Rejected") =>
          /\ pooling_mode = "Block"
          /\ handled' = <<>>
          /\ pools' = pools
          /\ creator' = creator
          /\ sounding' = sounding]_vars

\* a key was rejected under Block while another key was sounding
C4_Witness ==
    /\ call.op = "note_on" /\ call.result = "Rejected" /\ pooling_mode = "Block"
    /\ sounding # {}

FoundNoteOff == call.op = "note_off" /\ call.result = "Found"

\* C5, as claimed: note_off of a registered key hands out exactly one
\* NoteOff, on the key's channel.
C5_ExactlyOneNoteOff ==
    FoundNoteOff => handled = <<Msg("NoteOff", CallChan, call.note, 100)>>

\* C5, amended: note_off of a registered key hands out exactly one NoteOff
\* on the key's channel if the key's note is a MIDI note (0..127) and no
\* message otherwise; it hands out no tuning message and leaves the tuning
\* state, the octave tunings included, as it was.
C5_NoteOffKeepsTuning ==
    [][(call'.op = "note_off" /\ call'.result = "Found") =>
          /\ creator' = creator
          /\ handled' = IF IsMidiNote(call'.note)
                        THEN <<Msg("NoteOff", (call'.channel + target.first_channel) % 16,
                                   call'.note, 100)>>
                        ELSE <<>>]_vars

\* a key of a channel with a non-default octave tuning was released
C5_Witness ==
    /\ FoundNoteOff /\ handled # <<>>
    /\ creator.kind = "ScaleOctaveTuning"
    /\ \E c \in DOMAIN creator.octave_tunings :
          creator.octave_tunings[c] # DefaultOctaveTuning

-----------------------------------------------------------------------------
(* AotTuner: the keys of a tuning are distributed over channels ahead of   *)
(* time.  A channel tuning maps a slot (a note, a note letter or the whole *)
(* channel, as the tuning method has it) to its detuning; a key goes to    *)
(* the first channel its note is compatible with, or to a new one.         *)

\* a full keyboard tuning holds one degree per note of a channel; the other
\* methods hold any degrees whose slot has the same detuning
Compatible(kind, channel_tuning, slot, detuning) ==
    \/ slot \notin DOMAIN channel_tuning
    \/ kind # "SingleNoteTuningChange" /\ channel_tuning[slot] = detuning

FirstCompatible(kind, detunings, slot, detuning) ==
    LET fits == {c \in 1..Len(detunings) : Compatible(kind, detunings[c], slot, detuning)}
    IN  IF fits = {} THEN Len(detunings) + 1
        ELSE CHOOSE c \in fits : \A d \in fits : c <= d

WithSlot(channel_tuning, slot, detuning) ==
    [x \in DOMAIN channel_tuning \cup {slot} |->
        IF x = slot THEN detuning ELSE channel_tuning[x]]

\* AotTuner::apply_full_keyboard_tuning, apply_octave_based_tuning and
\* apply_channel_based_tuning for the keys from `key` on: the tuner's
\* key -> (channel, note) and the detunings per channel
RECURSIVE ApplyTuning(_, _, _, _, _)
ApplyTuning(kind, mapping, key, map, detunings) ==
    IF key > MaxKeys THEN [map |-> map, detunings |-> detunings]
    ELSE IF mapping[key] = None
    THEN ApplyTuning(kind, mapping, key + 1, map, detunings)
    ELSE LET note == ApproxNote(mapping[key])
             detuning == ApproxDetuning(mapping[key])
             slot == GroupOf(kind, note)
             c == FirstCompatible(kind, detunings, slot, detuning)
             old == IF c > Len(detunings) THEN <<>> ELSE detunings[c]
             new == WithSlot(old, slot, detuning)
         IN  ApplyTuning(kind, mapping, key + 1,
                         [k \in DOMAIN map \cup {key} |->
                             IF k = key THEN [channel |-> c - 1, note |-> note] ELSE map[k]],
                         IF c > Len(detunings) THEN Append(detunings, new)
                         ELSE [detunings EXCEPT ![c] = new])

apply_tuning(kind, mapping) == ApplyTuning(kind, mapping, 1, <<>>, <<>>)

-----------------------------------------------------------------------------
(* AotMidiTuner *)

\* check_num_channels that lets one channel too many pass
check_num_channels_OffByOne(t, num_channels_to_check) ==
    IF num_channels_to_check > t.num_channels + 1
    THEN [ok |-> FALSE, err |-> num_channels_to_check]
    ELSE [ok |-> TRUE, err |-> None]

\* MidiTarget::check_num_channels
check_num_channels(t, num_channels_to_check) ==
    IF num_channels_to_check > t.num_channels
    THEN [ok |-> FALSE, err |-> num_channels_to_check]
    ELSE [ok |-> TRUE, err |-> None]

\* the detuning of a channel whose degrees all share one
ChannelDetuning(channel_tuning) == channel_tuning[0]

\* the twelve detunings of a channel, 0 for a letter no degree uses
OctaveTuning(channel_tuning) ==
    [letter \in 0..11 |->
        IF letter \in DOMAIN channel_tuning THEN channel_tuning[letter] ELSE 0]

\* the tuning-setup messages of one channel, as the constructor of `kind`
\* hands them out
SetupMessages(t, kind, encodes, first_tuning_program, tuner_channel, channel_tuning) ==
    LET chan == midi_channel(t, tuner_channel) IN
    CASE kind = "SingleNoteTuningChange" ->
           LET prog == tuning_program(tuner_channel, first_tuning_program)
           IN  IF encodes
               THEN TuningProgramChange(chan, prog)
                    \o <<KeyboardTuningMessage(prog, Cardinality(DOMAIN channel_tuning))>>
               ELSE <<>>
      [] kind = "ScaleOctaveTuning" ->
           IF encodes
           THEN <<ScaleOctaveTuningMessage(chan, OctaveTuning(channel_tuning))>>
           ELSE <<>>
      [] kind = "ChannelFineTuning" ->
           ChannelFineTuning(chan, ChannelDetuning(channel_tuning))
      [] OTHER ->
           InChannel("PitchBendChange", chan, None,
                     pitch_bend_message(ChannelDetuning(channel_tuning)))

RECURSIVE SetupAll(_, _, _, _, _, _)
SetupAll(t, kind, encodes, first_tuning_program, detunings, tuner_channel) ==
    IF tuner_channel >= Len(detunings) THEN <<>>
    ELSE SetupMessages(t, kind, encodes, first_tuning_program, tuner_channel,
                       detunings[tuner_channel + 1])
         \o SetupAll(t, kind, encodes, first_tuning_program, detunings, tuner_channel + 1)

\* constructors that set up the channels before they count them
NewAotMidiTuner_SetupFirst(t, kind, encodes, first_tuning_program, mapping) ==
    LET a == apply_tuning(kind, mapping)
        checked == check_num_channels(t, Len(a.detunings))
    IN  [ok |-> checked.ok, err |-> checked.err,
         tuner |-> IF checked.ok
                   THEN [state |-> "built", kind |-> kind, map |-> a.map]
                   ELSE [state |-> "failed", kind |-> kind, map |-> <<>>],
         msgs |-> SetupAll(t, kind, encodes, first_tuning_program, a.detunings, 0)]

\* AotMidiTuner::single_note_tuning_change, scale_octave_tuning,
\* channel_fine_tuning and pitch_bend: Err(n) or the tuner, and the messages
\* handed out
NewAotMidiTuner(t, kind, encodes, first_tuning_program, mapping) ==
    LET a == apply_tuning(kind, mapping)
        checked == check_num_channels(t, Len(a.detunings))
    IN  IF checked.ok
        THEN [ok |-> TRUE, err |-> None,
              tuner |-> [state |-> "built", kind |-> kind, map |-> a.map],
              msgs |-> SetupAll(t, kind, encodes, first_tuning_program, a.detunings, 0)]
        ELSE [ok |-> FALSE, err |-> checked.err,
              tuner |-> [state |-> "failed", kind |-> kind, map |-> <<>>],
              msgs |-> <<>>]

\* a note event that retunes the key's channel before it is sent
AotSendEffect_Retune(t, tuner, kind, key, val) ==
    IF key \in DOMAIN tuner.map /\ CheckedMidiNumber(tuner.map[key].note) # None
    THEN Send(t, "PitchBendChange", tuner.map[key].channel, None, 0)
         \o Send(t, kind, tuner.map[key].channel, tuner.map[key].note, val)
    ELSE <<>>

\* AotMidiTuner::note_on, note_off and key_pressure
AotSendEffect(t, tuner, kind, key, val) ==
    IF key \in DOMAIN tuner.map /\ CheckedMidiNumber(tuner.map[key].note) # None
    THEN Send(t, kind, tuner.map[key].channel, tuner.map[key].note, val)
    ELSE <<>>

IdleJit ==
    /\ pooling_mode = "Block"
    /\ creator = [kind |-> "none", encodes |-> TRUE, first_tuning_program |-> 0,
                  octave_tunings |-> <<>>]
    /\ pools = <<>>
    /\ sounding = {}

AotInit ==
    /\ target \in [first_channel : FirstChannels, num_channels : ChannelCounts]
    /\ tuning \in [Keys -> PitchSet \cup {None}]
    /\ aot_tuner = NoAotTuner
    /\ handled = <<>>
    /\ call = Call("none", None, "Ok", None, None, None)
    /\ IdleJit
    /\ IdleOther

AotConstruct(kind, encodes, first_tuning_program) ==
    LET r == NewAotMidiTuner(target, kind, encodes, first_tuning_program, tuning)
    IN  /\ aot_tuner' = r.tuner
        /\ handled' = r.msgs
        /\ call' = Call("new", None, IF r.ok THEN "Ok" ELSE "Err", r.err, None, None)
        /\ UNCHANGED <<target, tuning, jitVars, otherVars>>

AotSingleNoteTuningChange ==
    \E encodes \in BOOLEAN :
        /\ aot_tuner.state = "none"
        /\ AotConstruct("SingleNoteTuningChange", encodes, 0)

AotScaleOctaveTuning ==
    \E encodes \in BOOLEAN :
        /\ aot_tuner.state = "none"
        /\ AotConstruct("ScaleOctaveTuning", encodes, 0)

AotChannelFineTuning ==
    /\ aot_tuner.state = "none"
    /\ AotConstruct("ChannelFineTuning", TRUE, 0)

AotPitchBend ==
    /\ aot_tuner.state = "none"
    /\ AotConstruct("PitchBend", TRUE, 0)

AotSend(op, kind, key, val) ==
    /\ handled' = AotSendEffect(target, aot_tuner, kind, key, val)
    /\ call' = Call(op, key, "Ok", None, None, None)
    /\ UNCHANGED <<target, aotVars, jitVars, otherVars>>

AotNoteOn(key, velocity) ==
    /\ aot_tuner.state = "built"
    /\ AotSend("note_on", "NoteOn", key, velocity)

AotNoteOff(key, velocity) ==
    /\ aot_tuner.state = "built"
    /\ AotSend("note_off", "NoteOff", key, velocity)

AotKeyPressure(key, pressure) ==
    /\ aot_tuner.state = "built"
    /\ AotSend("key_pressure", "PolyphonicKeyPressure", key, pressure)

AotSendMonophonicMessage(m) ==
    /\ aot_tuner.state = "built"
    /\ handled' = send_monophonic_message(target, m)
    /\ call' = Call("send_monophonic_message", None, "Ok", None, None, None)
    /\ UNCHANGED <<target, aotVars, jitVars, otherVars>>

AotNext ==
    \/ AotSingleNoteTuningChange
    \/ AotScaleOctaveTuning
    \/ AotChannelFineTuning
    \/ AotPitchBend
    \/ \E key \in Keys, velocity \in Velocities : AotNoteOn(key, velocity)
    \/ \E key \in Keys, velocity \in Velocities : AotNoteOff(key, velocity)
    \/ \E key \in Keys : AotKeyPressure(key, 64)
    \/ \E m \in MonoMessages : AotSendMonophonicMessage(m)

SpecAot == AotInit /\ [][AotNext]_vars

-----------------------------------------------------------------------------
(* Properties of AotMidiTuner, checked under SpecAot *)

\* the channels the keys of the tuning are on
UsedChannels == {aot_tuner.map[k].channel : k \in DOMAIN aot_tuner.map}

\* the number of channels the tuning requires with the method `kind`
Required(kind) == Len(apply_tuning(kind, tuning).detunings)

\* C6: a constructor of AotMidiTuner fails if and only if the tuning
\* requires more channels than the target has, and then returns the number
\* of channels required; otherwise it returns a tuner.
C6_FailsIffTooManyChannels ==
    call.op = "new" =>
        /\ call.result = "Err" <=> Required(aot_tuner.kind) > target.num_channels
        /\ call.result = "Err" =>
              call.channel = Required(aot_tuner.kind) /\ aot_tuner.state = "failed"
        /\ call.result = "Ok" =>
              /\ aot_tuner.state = "built"
              /\ Cardinality(UsedChannels) = Required(aot_tuner.kind)
              /\ \A c \in UsedChannels : c < target.num_channels

\* a constructor failed for want of a channel
C6_Witness ==
    call.op = "new" /\ call.result = "Err" /\ call.channel = target.num_channels + 1

AotNoteKind ==
    CASE call.op = "note_on" -> "NoteOn"
      [] call.op = "note_off" -> "NoteOff"
      [] OTHER -> "PolyphonicKeyPressure"

\* C9: once an AotMidiTuner is built, note_on, note_off and key_pressure
\* hand out at most one message, a channel message of their own type on the
\* (channel, MIDI note) the key was mapped to at setup, never a tuning
\* message; and the mapping of the keys never changes.
C9_FixedTranslation ==
    /\ [](call.op \in {"note_on", "note_off", "key_pressure"} =>
            /\ Len(handled) <= 1
            /\ \A i \in 1..Len(handled) :
                  /\ handled[i].kind = AotNoteKind
                  /\ call.key \in DOMAIN aot_tuner.map
                  /\ handled[i].chan
                       = (aot_tuner.map[call.key].channel + target.first_channel) % 16
                  /\ handled[i].key = aot_tuner.map[call.key].note)
    /\ [][aot_tuner.state = "built" => aot_tuner' = aot_tuner]_vars

\* a key on the second channel of a built tuner was started
C9_Witness ==
    /\ call.op = "note_on" /\ handled # <<>>
    /\ aot_tuner.map[call.key].channel = 1

-----------------------------------------------------------------------------
(* KeypressTracker: which finger is at which location *)

\* the programs the model lets curr_program take, and the update functions
\* of program_change: the argument plus one and the argument minus one
Programs == {0, 1, 127}
ProgramUpdates == {1, 0 - 1}

Fingers(kt) == DOMAIN kt

NumFingersAt(kt, location) == Cardinality({f \in DOMAIN kt : kt[f] = location})

\* KeypressTracker::pressed_locations, in ascending order
RECURSIVE PressedFrom(_, _)
PressedFrom(kt, location) ==
    IF location > MaxKeys THEN <<>>
    ELSE (IF NumFingersAt(kt, location) > 0 THEN <<location>> ELSE <<>>)
         \o PressedFrom(kt, location + 1)

pressed_locations(kt) == PressedFrom(kt, 1)

WithFinger(kt, finger, location) ==
    [f \in DOMAIN kt \cup {finger} |-> IF f = finger THEN location ELSE kt[f]]

WithoutFinger(kt, finger) == [f \in DOMAIN kt \ {finger} |-> kt[f]]

\* KeypressTracker::place_finger_at
place_finger_at(kt, finger, location) ==
    IF finger \in DOMAIN kt
    THEN [ok |-> FALSE, place |-> "none", kt |-> kt]
    ELSE [ok |-> TRUE,
          place |-> IF NumFingersAt(kt, location) = 0 THEN "KeyPressed"
                    ELSE "KeyAlreadyPressed",
          kt |-> WithFinger(kt, finger, location)]

\* KeypressTracker::lift_finger
lift_finger(kt, finger) ==
    IF finger \notin DOMAIN kt
    THEN [ok |-> FALSE, lift |-> "none", location |-> None, kt |-> kt]
    ELSE LET after == WithoutFinger(kt, finger)
         IN  [ok |-> TRUE,
              lift |-> IF NumFingersAt(after, kt[finger]) = 0 THEN "KeyReleased"
                       ELSE "KeyRemainsPressed",
              location |-> kt[finger], kt |-> after]

\* KeypressTracker::move_finger_to
move_finger_to(kt, finger, new_location) ==
    IF finger \notin DOMAIN kt
    THEN [ok |-> FALSE, lift |-> "none", location |-> None, place |-> "none", kt |-> kt]
    ELSE IF kt[finger] = new_location
    THEN [ok |-> TRUE, lift |-> "KeyRemainsPressed", location |-> None,
          place |-> "KeyAlreadyPressed", kt |-> kt]
    ELSE LET l == lift_finger(kt, finger)
             pl == place_finger_at(l.kt, finger, new_location)
         IN  [ok |-> TRUE, lift |-> l.lift, location |-> l.location,
              place |-> pl.place, kt |-> pl.kt]

-----------------------------------------------------------------------------
(* MidiOutBackend *)

\* JitTuner::stop: the keys still registered are released
RECURSIVE JitStop(_, _, _)
JitStop(t, ps, key) ==
    IF key > MaxKeys THEN <<>>
    ELSE LET r == deregister_key(ps, key)
         IN  JitNoteOffEffect(t, r, 0) \o JitStop(t, r.pools, key + 1)

\* history: the notes sounding after the messages an ahead-of-time tuner
\* emitted for one scale degree; a NoteOff ends what sounds for the degree
RECURSIVE DegreeAfter(_, _, _)
DegreeAfter(snd, degree, msgs) ==
    IF msgs = <<>> THEN snd
    ELSE DegreeAfter(
            CASE Head(msgs).kind = "NoteOn" ->
                   snd \cup {[key |-> degree, chan |-> Head(msgs).chan,
                              note |-> Head(msgs).key]}
              [] Head(msgs).kind = "NoteOff" -> {s \in snd : s.key # degree}
              [] OTHER -> snd,
            degree, Tail(msgs))

\* a destroy_tuning that stops an ahead-of-time tuner without releasing
\* the pressed locations
ReleaseAll_None(t, tuner, locations) == <<>>

\* destroy_tuning's note_off for every pressed location
RECURSIVE ReleaseAll(_, _, _)
ReleaseAll(t, tuner, locations) ==
    IF locations = <<>> THEN <<>>
    ELSE AotSendEffect(t, tuner, "NoteOff", Head(locations), 0)
         \o ReleaseAll(t, tuner, Tail(locations))

\* MidiOutBackend::destroy_tuning: self.tuner becomes Destroyed, the old
\* tuner is stopped; `unreachable` when it was Destroyed already
destroy_tuning(b, t, ps, at) ==
    CASE b.tuner = "None" ->
           [tuner |-> "Destroyed", msgs |-> <<>>, unreachable |-> FALSE]
      [] b.tuner = "Jit" ->
           [tuner |-> "Destroyed", msgs |-> JitStop(t, ps, 1), unreachable |-> FALSE]
      [] b.tuner = "Aot" ->
           [tuner |-> "Destroyed",
            msgs |-> ReleaseAll(t, at, pressed_locations(b.keypress_tracker)),
            unreachable |-> FALSE]
      [] OTHER ->
           [tuner |-> "Destroyed", msgs |-> <<>>, unreachable |-> TRUE]

\* history: the notes sounding after destroy_tuning
RECURSIVE ReleasedSounding(_, _, _, _)
ReleasedSounding(snd, t, tuner, locations) ==
    IF locations = <<>> THEN snd
    ELSE ReleasedSounding(
            DegreeAfter(snd, Head(locations),
                        AotSendEffect(t, tuner, "NoteOff", Head(locations), 0)),
            t, tuner, Tail(locations))

DestroyedSounding(b, t, at, snd, msgs) ==
    IF b.tuner = "Aot"
    THEN ReleasedSounding(snd, t, at, pressed_locations(b.keypress_tracker))
    ELSE SoundingAfterAll(snd, None, msgs)

\* history: the number of pressed locations destroy_tuning calls note_off
\* for, None unless the tuner it destroys is an ahead-of-time tuner
Released(b) ==
    IF b.tuner = "Aot" THEN Len(pressed_locations(b.keypress_tracker)) ELSE None

\* an Aot arm that forgets what the keypress tracker was told
BackendAot_KeepTracker(op, id, result, msgs, kt, snd) ==
    /\ handled' = msgs
    /\ sounding' = snd
    /\ call' = Call(op, id, result, None, None, None)
    /\ UNCHANGED <<target, pooling_mode, creator, pools, aotVars, backend, liveVars,
                   magnetron>>

\* set_tuning that leaves the tuner as destroy_tuning left it when the
\* tuning needs too many channels
TunerAfterSetTuning_Destroyed(destroyed, ok) == IF ok THEN "Aot" ELSE destroyed

\* set_tuning that keeps an ahead-of-time tuner when the tuning needs too
\* many channels
TunerAfterSetTuning_KeepAot(destroyed, ok) == "Aot"

\* the variant set_tuning assigns to self.tuner: Aot when the tuning fits,
\* None when it requires too many channels
TunerAfterSetTuning(destroyed, ok) == IF ok THEN "Aot" ELSE "None"

\* what is left of a call that hit unreachable!: it does not return
Panicked(b) ==
    /\ backend' = [b EXCEPT !.unreachable = TRUE]
    /\ UNCHANGED <<target, handled, call, jitVars, aotVars, liveVars, magnetron>>

\* the tunings set_tuning is called with: the first key at note 60, the
\* other keys at one pitch of PitchSet
BackendTunings == {[k \in Keys |-> IF k = 1 THEN 6000 ELSE p] : p \in PitchSet}

\* the (degree, pitch) pairs a key is started at: every pitch of PitchSet,
\* at the degrees in turn
Locations ==
    {[degree |-> 1, pitch |-> 6000], [degree |-> MaxKeys, pitch |-> 6100],
     [degree |-> 1 + (MaxKeys % 2), pitch |-> 13230]}

BackendInit ==
    /\ target \in [first_channel : FirstChannels, num_channels : ChannelCounts]
    /\ pooling_mode = "Stop"
    \* the options of the backend encode; those that do not, and the octave
    \* tunings of two channels, are left to SpecJit
    /\ creator \in [kind : CreatorKinds, encodes : {TRUE}, first_tuning_program : {0},
                     octave_tunings : {<<>>}]
    /\ creator.kind = "ScaleOctaveTuning" => target.num_channels = 1
    /\ pools = <<>>
    /\ sounding = {}
    /\ tuning = <<>>
    /\ aot_tuner = NoAotTuner
    /\ handled = <<>>
    /\ call = Call("create", None, "Ok", None, None, None)
    /\ IdleOther

BackendSetTuning(new_tuning) ==
    /\ ~backend.unreachable
    /\ LET d == destroy_tuning(backend, target, pools, aot_tuner)
           r == NewAotMidiTuner(target, creator.kind, creator.encodes,
                                creator.first_tuning_program, new_tuning)
       IN  IF d.unreachable THEN Panicked([backend EXCEPT !.tuner = d.tuner])
           ELSE /\ backend' = [backend EXCEPT !.tuner = TunerAfterSetTuning(d.tuner, r.ok),
                                              !.keypress_tracker = <<>>]
                /\ aot_tuner' = IF r.ok THEN r.tuner ELSE NoAotTuner
                /\ tuning' = IF r.ok THEN new_tuning ELSE <<>>
                /\ pools' = <<>>
                /\ handled' = d.msgs \o r.msgs
                /\ sounding' = DestroyedSounding(backend, target, aot_tuner, sounding,
                                                  d.msgs)
                /\ call' = Call("set_tuning", None, IF r.ok THEN "Ok" ELSE "Err",
                                r.err, None, Released(backend))
                /\ UNCHANGED <<target, pooling_mode, creator, liveVars, magnetron>>

BackendSetNoTuning ==
    /\ ~backend.unreachable
    /\ LET d == destroy_tuning(backend, target, pools, aot_tuner)
       IN  IF d.unreachable THEN Panicked([backend EXCEPT !.tuner = d.tuner])
           ELSE /\ backend' = [backend EXCEPT !.tuner = "Jit", !.keypress_tracker = <<>>]
                /\ pools' = NewPools(creator.kind, target.num_channels)
                /\ pooling_mode' = "Stop"
                /\ aot_tuner' = NoAotTuner
                /\ tuning' = <<>>
                /\ handled' = d.msgs
                /\ sounding' = DestroyedSounding(backend, target, aot_tuner, sounding,
                                                  d.msgs)
                /\ call' = Call("set_no_tuning", None, "Ok", None, None,
                                Released(backend))
                /\ UNCHANGED <<target, creator, liveVars, magnetron>>

\* nothing is done for a tuner that is None or Destroyed
BackendIgnored(op, id) ==
    /\ handled' = <<>>
    /\ call' = Call(op, id, "Ignored", None, None, None)
    /\ UNCHANGED <<target, jitVars, aotVars, backend, liveVars, magnetron>>

\* the Aot arm of an operation: the messages and the keypress tracker it
\* leaves, and the history of the sounding notes after it
BackendAot(op, id, result, msgs, kt, snd) ==
    /\ backend' = [backend EXCEPT !.keypress_tracker = kt]
    /\ handled' = msgs
    /\ sounding' = snd
    /\ call' = Call(op, id, result, None, None, None)
    /\ UNCHANGED <<target, pooling_mode, creator, pools, aotVars, liveVars, magnetron>>

\* start; with a just-in-time tuner, for an id that is not registered
BackendStart(id, degree, pitch, velocity) ==
    /\ ~backend.unreachable
    /\ CASE backend.tuner = "Jit" ->
             /\ id \notin RegisteredKeys(pools)
             /\ LET r == register_key(pools, pooling_mode, creator.kind, id, pitch)
                    e == JitNoteOnEffect(target, creator, r, velocity)
                IN  /\ pools' = r.pools
                    /\ creator' = e.creator
                    /\ handled' = e.msgs
                    /\ sounding' = SoundingAfterAll(sounding, id, e.msgs)
                    /\ call' = Call("start", id, r.kind, r.channel, r.started_note,
                                    r.stopped_note)
             /\ UNCHANGED <<target, pooling_mode, aotVars, backend, liveVars, magnetron>>
         [] backend.tuner = "Aot" ->
             LET p == place_finger_at(backend.keypress_tracker, id, degree)
                 on == AotSendEffect(target, aot_tuner, "NoteOn", degree, velocity)
                 off == AotSendEffect(target, aot_tuner, "NoteOff", degree, velocity)
                 msgs == CASE p.place = "KeyPressed" -> on
                           [] p.place = "KeyAlreadyPressed" -> off \o on
                           [] OTHER -> <<>>
             IN  BackendAot("start", id, p.place, msgs, p.kt,
                            DegreeAfter(sounding, degree, msgs))
         [] OTHER -> BackendIgnored("start", id)

BackendUpdatePitch(id, degree, pitch, velocity) ==
    /\ ~backend.unreachable
    /\ CASE backend.tuner = "Jit" ->
             /\ LET r == access_key(pools, id)
                    e == JitUpdatePitchEffect(target, creator, r, pitch)
                IN  /\ creator' = e.creator
                    /\ handled' = e.msgs
                    /\ call' = Call("update_pitch", id, r.kind, r.channel, r.found_note, None)
             /\ UNCHANGED <<target, pooling_mode, pools, sounding, aotVars, backend,
                            liveVars, magnetron>>
         [] backend.tuner = "Aot" ->
             LET mv == move_finger_to(backend.keypress_tracker, id, degree)
                 on == AotSendEffect(target, aot_tuner, "NoteOn", degree, velocity)
                 off == IF mv.lift = "KeyReleased"
                        THEN AotSendEffect(target, aot_tuner, "NoteOff", mv.location,
                                           velocity)
                        ELSE <<>>
                 msgs == CASE mv.lift = "KeyReleased" -> off \o on
                           [] mv.lift = "KeyRemainsPressed" /\ mv.place = "KeyPressed" -> on
                           [] OTHER -> <<>>
             IN  BackendAot("update_pitch", id, mv.lift, msgs, mv.kt,
                            IF msgs = <<>> THEN sounding
                            ELSE DegreeAfter(DegreeAfter(sounding, mv.location, off),
                                             degree, on))
         [] OTHER -> BackendIgnored("update_pitch", id)

BackendUpdatePressure(id, pressure) ==
    /\ ~backend.unreachable
    /\ CASE backend.tuner = "Jit" ->
             /\ LET r == access_key(pools, id)
                IN  /\ handled' = JitKeyPressureEffect(target, r, pressure)
                    /\ call' = Call("update_pressure", id, r.kind, r.channel, r.found_note,
                                    None)
             /\ UNCHANGED <<target, jitVars, aotVars, backend, liveVars, magnetron>>
         [] backend.tuner = "Aot" ->
             LET kt == backend.keypress_tracker
             IN  BackendAot("update_pressure", id,
                            IF id \in Fingers(kt) THEN "Found" ELSE "NotFound",
                            IF id \in Fingers(kt)
                            THEN AotSendEffect(target, aot_tuner, "PolyphonicKeyPressure",
                                               kt[id], pressure)
                            ELSE <<>>,
                            kt, sounding)
         [] OTHER -> BackendIgnored("update_pressure", id)

BackendStop(id, velocity) ==
    /\ ~backend.unreachable
    /\ CASE backend.tuner = "Jit" ->
             /\ LET r == deregister_key(pools, id)
                IN  /\ pools' = r.pools
                    /\ handled' = JitNoteOffEffect(target, r, velocity)
                    /\ sounding' = SoundingAfterAll(sounding, id,
                                                     JitNoteOffEffect(target, r, velocity))
                    /\ call' = Call("stop", id, r.kind, r.channel, r.found_note, None)
             /\ UNCHANGED <<target, pooling_mode, creator, aotVars, backend,
                            liveVars, magnetron>>
         [] backend.tuner = "Aot" ->
             LET l == lift_finger(backend.keypress_tracker, id)
                 msgs == IF l.lift = "KeyReleased"
                         THEN AotSendEffect(target, aot_tuner, "NoteOff", l.location,
                                            velocity)
                         ELSE <<>>
             IN  BackendAot("stop", id, l.lift, msgs, l.kt,
                            DegreeAfter(sounding, l.location, msgs))
         [] OTHER -> BackendIgnored("stop", id)

\* MidiOutBackend::send_monophonic_message
BackendSendMonophonicMessage(b, t, m) ==
    IF b.tuner \in {"Jit", "Aot"} THEN send_monophonic_message(t, m) ELSE <<>>

\* a program_change that hands curr_program itself to the update function
program_change_NoOffset(curr_program, update) ==
    LET updated == curr_program + update
    IN  [underflow |-> updated < 0,
         program |-> IF updated < 0 THEN curr_program ELSE updated % 128]

\* the new curr_program: update_fn(usize::from(curr_program) + 128) % 128
\* as a u8, for an update function that adds `update` to its argument;
\* underflow if the usize result of the update function were negative
program_change(curr_program, update) ==
    LET argument == curr_program + 128
        updated == argument + update
    IN  [underflow |-> updated < 0,
         program |-> IF updated < 0 THEN curr_program ELSE (updated % 128) % 256]

\* MidiOutBackend::program_change; the call keeps the update in `key`
BackendProgramChange(update) ==
    /\ ~backend.unreachable
    /\ LET p == program_change(backend.curr_program, update)
       IN  /\ p.program \in Programs
           /\ backend' = [backend EXCEPT !.curr_program = p.program]
           /\ handled' = BackendSendMonophonicMessage(backend, target,
                             [kind |-> "ProgramChange", key |-> None,
                              val |-> p.program])
           /\ call' = Call("program_change", update,
                           IF p.underflow THEN "Underflow" ELSE "Ok", None, None, None)
    /\ UNCHANGED <<target, jitVars, aotVars, liveVars, magnetron>>

BackendMonophonic(op, m) ==
    /\ handled' = BackendSendMonophonicMessage(backend, target, m)
    /\ call' = Call(op, None, "Ok", None, None, None)
    /\ UNCHANGED <<target, jitVars, aotVars, backend, liveVars, magnetron>>

BackendControlChange(controller, value) ==
    /\ ~backend.unreachable
    /\ BackendMonophonic("control_change",
                         [kind |-> "ControlChange", key |-> controller, val |-> value])

BackendChannelPressure(pressure) ==
    /\ ~backend.unreachable
    /\ BackendMonophonic("channel_pressure",
                         [kind |-> "ChannelPressure", key |-> None, val |-> pressure])

BackendPitchBend(value) ==
    /\ ~backend.unreachable
    /\ BackendMonophonic("pitch_bend",
                         [kind |-> "PitchBendChange", key |-> None, val |-> value])

BackendNext ==
    \/ \E new_tuning \in BackendTunings : BackendSetTuning(new_tuning)
    \/ BackendSetNoTuning
    \/ \E id \in Keys, at \in Locations, velocity \in Velocities :
          BackendStart(id, at.degree, at.pitch, velocity)
    \/ \E id \in Keys, degree \in Keys, pitch \in BendSet, velocity \in Velocities :
          BackendUpdatePitch(id, degree, pitch, velocity)
    \/ \E id \in Keys : BackendUpdatePressure(id, 64)
    \/ \E id \in Keys, velocity \in Velocities : BackendStop(id, velocity)
    \/ \E update \in ProgramUpdates : BackendProgramChange(update)
    \/ BackendControlChange(7, 100)
    \/ BackendChannelPressure(64)
    \/ BackendPitchBend(8192)

SpecBackend == BackendInit /\ [][BackendNext]_vars

-----------------------------------------------------------------------------
(* Properties of MidiOutBackend, checked under SpecBackend *)

\* the step is a set_tuning that failed with TooManyChannelsRequired
SetTuningFailed == call'.op = "set_tuning" /\ call'.result = "Err"

\* C7 as stated: when set_tuning fails with TooManyChannelsRequired, the
\* variant of the tuner after the call is the one it had before the call.
C7_RevertsToPrevious ==
    [][SetTuningFailed => backend'.tuner = backend.tuner]_vars

\* C7: when set_tuning fails with TooManyChannelsRequired, the previous tuner
\* has been destroyed and the tuner is left in the None variant, whatever
\* the variant before the call; no key stays pressed.
C7_FailedSetTuningLeavesNone ==
    [][SetTuningFailed =>
          /\ backend'.tuner = "None"
          /\ backend'.keypress_tracker = <<>>
          /\ aot_tuner' = NoAotTuner
          /\ pools' = <<>>
          /\ call'.channel > target.num_channels]_vars

\* a set_tuning failed on a tuner that had a note to release
C7_Witness ==
    /\ call.op = "set_tuning" /\ call.result = "Err"
    /\ handled # <<>>
    /\ backend.tuner = "None"

\* C8: after every operation of the backend the tuner is None, Jit or Aot,
\* never Destroyed, and destroy_tuning never finds the tuner Destroyed.
C8_NeverDestroyed ==
    /\ backend.tuner \in {"None", "Jit", "Aot"}
    /\ ~backend.unreachable

\* a tuner with pressed keys was destroyed and replaced
C8_Witness ==
    /\ call.op \in {"set_tuning", "set_no_tuning"} /\ call.result = "Ok"
    /\ \E i \in 1..Len(handled) : handled[i].kind = "NoteOff"

-----------------------------------------------------------------------------
(* LiveOptions::run with an ahead-of-time tuner: the main thread builds the *)
(* tuner, connects the input, connects the output and then writes what it   *)
(* receives; the input callback runs on the thread of the MIDI input.       *)

in_channel == 0
MaxEvents == 3

\* the tunings of the scale: the first key at note 60, the other keys at
\* one pitch of PitchSet
LiveTunings == {[k \in Keys |-> IF k = 1 THEN 6000 ELSE p] : p \in PitchSet}

\* the channel messages the MIDI input delivers
LiveInputs ==
    {Msg(kind, chan, key, 100) :
        kind \in {"NoteOn", "NoteOff", "PolyphonicKeyPressure"},
        chan \in {0, 1}, key \in Keys}
    \cup {Msg("ControlChange", chan, 7, 100) : chan \in {0, 1}}
    \cup {Msg("PitchBendChange", chan, None, 8192) : chan \in {0, 1}}

\* a filter that lets the messages of every channel pass
PassesFilter_AnyChannel(m, accept_pitch_bend_messages) ==
    accept_pitch_bend_messages \/ m.kind # "PitchBendChange"

\* connect_to_in_device: the messages the callback is called with
PassesFilter(m, accept_pitch_bend_messages) ==
    /\ m.chan = in_channel
    /\ accept_pitch_bend_messages \/ m.kind # "PitchBendChange"

\* the callback of AheadOfTimeOptions::run_internal: the messages the
\* tuner hands out for an input message
LiveCallback(t, tuner, m) ==
    IF m.kind \in {"NoteOn", "NoteOff", "PolyphonicKeyPressure"}
    THEN AotSendEffect(t, tuner, m.kind, m.key, m.val)
    ELSE send_monophonic_message(t, [kind |-> m.kind, key |-> m.key, val |-> m.val])

\* a receiver that takes the message sent last
Recv_Lifo(q) == [message |-> q[Len(q)], rest |-> SubSeq(q, 1, Len(q) - 1)]

\* the receiver of the channel: the message sent first, and what stays
Recv(q) == [message |-> Head(q), rest |-> Tail(q)]

\* a message of the tuning setup of a tuner of method `kind`
IsSetupMessage(kind, m) ==
    \/ m.kind \in {"SingleNoteTuningChange", "ScaleOctaveTuning"}
    \/ m.kind = "ControlChange" /\ m.key \in {101, 100, 6}
    \/ m.kind = "PitchBendChange" /\ kind = "PitchBend"

\* the messages handed out after the setup
Events(kind, msgs) == {i \in 1..Len(msgs) : ~IsSetupMessage(kind, msgs[i])}

LiveInit ==
    /\ target \in [first_channel : FirstChannels, num_channels : ChannelCounts]
    /\ tuning \in LiveTunings
    /\ aot_tuner = NoAotTuner
    /\ handled = <<>>
    /\ call = Call("none", None, "Ok", None, None, None)
    /\ IdleJit
    /\ backend = NewBackend
    /\ pc = "run"
    /\ queue = <<>>
    /\ written = <<>>
    /\ handed = <<>>
    /\ midi_in = <<>>
    /\ magnetron = NoMagnetron

\* options.run: the tuner is built, its setup messages go to the handler,
\* and the input is connected, unless one of the two fails
LiveRun(kind, encodes, in_connected) ==
    /\ pc = "run"
    /\ kind \in MtsKinds \/ encodes
    /\ LET r == NewAotMidiTuner(target, kind, encodes, 0, tuning)
       IN  /\ aot_tuner' = r.tuner
           /\ queue' = queue \o r.msgs
           /\ handed' = handed \o r.msgs
           /\ pc' = IF r.ok /\ in_connected THEN "connect_out" ELSE "failed"
    /\ UNCHANGED <<target, tuning, handled, call, jitVars, backend, written, midi_in, magnetron>>

\* midi::connect_to_out_device
LiveConnectOut(out_connected) ==
    /\ pc = "connect_out"
    /\ pc' = IF out_connected THEN "loop" ELSE "failed"
    /\ UNCHANGED <<target, handled, call, jitVars, aotVars, backend, queue, written, handed, midi_in, magnetron>>

\* the input callback, on the input's thread
LiveInput(m) ==
    /\ pc \in {"connect_out", "loop"}
    /\ LET msgs == IF PassesFilter(m, aot_tuner.kind # "PitchBend")
                   THEN LiveCallback(target, aot_tuner, m)
                   ELSE <<>>
       IN  /\ Cardinality(Events(aot_tuner.kind, handed \o msgs)) <= MaxEvents
           /\ queue' = queue \o msgs
           /\ handed' = handed \o msgs
    /\ UNCHANGED <<target, handled, call, jitVars, aotVars, backend, pc, written, midi_in, magnetron>>

\* one turn of the output loop
LiveWrite ==
    /\ pc = "loop"
    /\ queue # <<>>
    /\ written' = Append(written, Recv(queue).message)
    /\ queue' = Recv(queue).rest
    /\ UNCHANGED <<target, handled, call, jitVars, aotVars, backend, pc, handed, midi_in, magnetron>>

LiveNext ==
    \/ \E kind \in CreatorKinds, encodes \in BOOLEAN, in_connected \in BOOLEAN :
          LiveRun(kind, encodes, in_connected)
    \/ \E out_connected \in BOOLEAN : LiveConnectOut(out_connected)
    \/ \E m \in LiveInputs : LiveInput(m)
    \/ LiveWrite

SpecLive == LiveInit /\ [][LiveNext]_vars

-----------------------------------------------------------------------------
(* Properties of the live mode, checked under SpecLive *)

\* C10: the output is written in the order the tuner handed the messages to
\* the handler: what is written, followed by what is queued, is what was
\* handed out; and once a NoteOn is written, every message of the tuning
\* setup has been written before it.
C10_FifoOrder ==
    /\ handed = written \o queue
    /\ \A i \in 1..Len(written) :
          written[i].kind = "NoteOn" =>
              /\ \A j \in i..Len(written) : ~IsSetupMessage(aot_tuner.kind, written[j])
              /\ \A j \in 1..Len(queue) : ~IsSetupMessage(aot_tuner.kind, queue[j])

\* a NoteOn was written after the tuning setup of its channel while the
\* input callback had queued more
C10_Witness ==
    /\ queue # <<>>
    /\ \E i \in 1..Len(written) :
          /\ written[i].kind = "NoteOn"
          /\ \E j \in 1..(i - 1) :
                /\ IsSetupMessage(aot_tuner.kind, written[j])
                /\ written[j].chan = written[i].chan

-----------------------------------------------------------------------------
(* MidiTarget with the output channels of the live options *)

\* the values of --out-chan and --out-chans tried
OutChannels == {0, 10, 15, 16}
NumOutChannels == {0, 1, 2, 9, 15, 16, 17}

\* a validation that looks at the output channel before the input channel
validate_channels_OutFirst(num_out_channels, in_chan, out_channel) ==
    IF num_out_channels > 16 THEN "Cannot use more than 16 channels"
    ELSE IF out_channel >= 16 THEN "Output channel is not in the range [0..16)"
    ELSE IF in_chan >= 16 THEN "Input channel is not in the range [0..16)"
    ELSE "Ok"

\* LiveOptions::validate_channels: "Ok" or the error
validate_channels(num_out_channels, in_chan, out_channel) ==
    IF num_out_channels > 16 THEN "Cannot use more than 16 channels"
    ELSE IF in_chan >= 16 THEN "Input channel is not in the range [0..16)"
    ELSE IF out_channel >= 16 THEN "Output channel is not in the range [0..16)"
    ELSE "Ok"

\* the targets the live options give once validate_channels let them pass
LiveTargets ==
    {t \in [first_channel : OutChannels, num_channels : NumOutChannels] :
        validate_channels(t.num_channels, in_channel, t.first_channel) = "Ok"}

\* the monophonic messages: control change, program change, channel
\* pressure and pitch bend
TargetMessages ==
    {[kind |-> "ControlChange", key |-> 7, val |-> 100],
     [kind |-> "ProgramChange", key |-> None, val |-> 5],
     [kind |-> "ChannelPressure", key |-> None, val |-> 64],
     [kind |-> "PitchBendChange", key |-> None, val |-> 8192]}

\* the out-channels LiveOptions::run prints
RECURSIVE PrintedChannels(_, _)
PrintedChannels(t, c) ==
    IF c >= t.num_channels THEN <<>>
    ELSE <<((t.first_channel + c) % 256) % 16>> \o PrintedChannels(t, c + 1)

TargetInit ==
    /\ target \in LiveTargets
    /\ handled = <<>>
    /\ call = Call("none", None, "Ok", None, None, None)
    /\ IdleJit
    /\ tuning = <<>>
    /\ aot_tuner = NoAotTuner
    /\ IdleOther

\* send_monophonic_message; the call keeps the message: its type as the
\* result, its data as key and note
TargetSendMonophonicMessage(m) ==
    /\ handled' = send_monophonic_message(target, m)
    /\ call' = Call("send_monophonic_message", m.key, m.kind, None, m.val, None)
    /\ UNCHANGED <<target, jitVars, aotVars, otherVars>>

\* MidiTarget::send of a note on one tuner channel
TargetSend(tuner_channel, key) ==
    /\ tuner_channel < target.num_channels
    /\ handled' = Send(target, "NoteOn", tuner_channel, key, 100)
    /\ call' = Call("send", key, "Ok", tuner_channel, key, None)
    /\ UNCHANGED <<target, jitVars, aotVars, otherVars>>

TargetNext ==
    \/ \E m \in TargetMessages : TargetSendMonophonicMessage(m)
    \/ \E tuner_channel \in 0..15, key \in {60} : TargetSend(tuner_channel, key)

SpecTarget == TargetInit /\ [][TargetNext]_vars

-----------------------------------------------------------------------------
(* Properties of MidiTarget, checked under SpecTarget *)

\* the MIDI channels of the messages handed out, in order
HandledChannels == [i \in 1..Len(handled) |-> handled[i].chan]

\* C11: send_monophonic_message hands out the message once for each of the
\* num_channels output channels (first_channel + i) mod 16, i = 0 ..
\* num_channels - 1, in ascending i: no channel twice, no other channel.
C11_BroadcastOncePerChannel ==
    call.op = "send_monophonic_message" =>
        /\ Len(handled) = target.num_channels
        /\ \A i \in 0..(target.num_channels - 1) :
              handled[i + 1] =
                  Msg(call.result, (target.first_channel + i) % 16, call.key, call.note)
        /\ \A i, j \in 1..Len(handled) : handled[i].chan = handled[j].chan => i = j

\* a broadcast over sixteen channels that starts at channel 15
C11_Witness ==
    /\ call.op = "send_monophonic_message"
    /\ target.first_channel = 15 /\ target.num_channels = 16
    /\ handled # <<>>

\* C12: tuner channel i is sent on MIDI channel (out-chan + i) mod 16, the
\* channel the options print for it; with --out-chan=10 and --out-chans=15
\* the tuner channels take every channel 0..15 but channel 9, each once.
C12_ChannelsWrapAround ==
    /\ call.op = "send" =>
          /\ Len(handled) = 1
          /\ handled[1].chan = (target.first_channel + call.channel) % 16
          /\ handled[1].chan = PrintedChannels(target, 0)[call.channel + 1]
    /\ call.op = "send_monophonic_message"
          /\ target.first_channel = 10 /\ target.num_channels = 15 =>
          /\ Range(HandledChannels) = (0..15) \ {9}
          /\ Len(handled) = 15

\* a note was sent on a tuner channel that wraps around to MIDI channel 0
C12_Witness ==
    /\ call.op = "send"
    /\ target.first_channel = 10 /\ target.num_channels = 15
    /\ call.channel = 6 /\ handled[1].chan = 0

-----------------------------------------------------------------------------
(* The MIDI input of the live mode: a raw message is parsed, filtered and  *)
(* passed to the callback of the tuner.                                     *)

MaxRawLen == 3

\* status bytes: every message type on channel 0 and on another channel,
\* and bytes that start no channel message
StatusBytes ==
    {128, 135, 144, 152, 160, 169, 176, 186, 192, 203, 208, 220, 224, 237,
     240, 127, 0}
DataBytes == {0, 22, 127, 128, 255}

RawMessages ==
    {<<>>} \cup
    {<<status>> \o data :
        status \in StatusBytes,
        data \in UNION {[1..n -> DataBytes] : n \in 0..(MaxRawLen - 1)}}

NoMessage == [kind |-> "None", chan |-> None, key |-> None, val |-> None, prog |-> None]

\* message.get(i): the byte at the zero-based index i, if there is one
Get(message, i) == IF i < Len(message) THEN message[i + 1] ELSE None

\* a parser that decodes note-on messages as note-off messages too
from_raw_message_NoteOffOnly(message) ==
    IF Len(message) < 3 \/ message[1] \div 16 \notin {8, 9} THEN NoMessage
    ELSE Msg("NoteOff", message[1] % 16, message[2], message[3])

\* ChannelMessage::from_raw_message
from_raw_message(message) ==
    IF Get(message, 0) = None THEN NoMessage
    ELSE LET status_byte == Get(message, 0)
             channel == status_byte % 16
             action == status_byte \div 16
             b1 == Get(message, 1)
             b2 == Get(message, 2)
             Two(kind) == IF b1 = None \/ b2 = None THEN NoMessage
                          ELSE Msg(kind, channel, b1, b2)
             One(kind) == IF b1 = None THEN NoMessage
                          ELSE Msg(kind, channel, None, b1)
         IN  CASE action = 8 -> Two("NoteOff")
               [] action = 9 -> Two("NoteOn")
               [] action = 10 -> Two("PolyphonicKeyPressure")
               [] action = 11 -> Two("ControlChange")
               [] action = 12 -> One("ProgramChange")
               [] action = 13 -> One("ChannelPressure")
               [] action = 14 -> IF b1 = None \/ b2 = None THEN NoMessage
                                 ELSE Msg("PitchBendChange", channel, None,
                                          b1 + b2 * 128)
               [] OTHER -> NoMessage

\* the flag JustInTimeOptions::run and AheadOfTimeOptions::run pass for the
\* tuning method
accept_pitch_bend_messages(method) == method # "PitchBend"

InputInit ==
    /\ target \in [first_channel : FirstChannels, num_channels : {1}]
    /\ pooling_mode = "Block"
    /\ creator \in [kind : CreatorKinds, encodes : {TRUE}, first_tuning_program : {0},
                     octave_tunings : {<<>>}]
    /\ pools = <<>>
    /\ sounding = {}
    /\ tuning = <<>>
    /\ aot_tuner = NoAotTuner
    /\ handled = <<>>
    /\ call = Call("none", None, "Ok", None, None, None)
    /\ backend = NewBackend
    /\ pc = "idle"
    /\ queue = <<>>
    /\ written = <<>>
    /\ handed = <<>>
    /\ midi_in \in RawMessages
    /\ magnetron = NoMagnetron

\* the closure connect_to_in_device registers, called with the raw message
\* of the input; `handled` is what the callback of the tuner is called with
InputReceive(raw_message) ==
    /\ call.op = "none"
    /\ LET parsed_message == from_raw_message(raw_message)
           passed == /\ parsed_message # NoMessage
                     /\ PassesFilter(parsed_message,
                                     accept_pitch_bend_messages(creator.kind))
       IN  /\ handled' = IF passed THEN <<parsed_message>> ELSE <<>>
           /\ call' = Call("input", None,
                           CASE parsed_message = NoMessage -> "NotParsed"
                             [] passed -> "Passed"
                             [] OTHER -> "Filtered",
                           None, None, None)
    /\ UNCHANGED <<target, jitVars, aotVars, otherVars>>

InputNext == InputReceive(midi_in)

SpecInput == InputInit /\ [][InputNext]_vars

-----------------------------------------------------------------------------
(* Properties of the MIDI input, checked under SpecInput *)

\* the message the input delivered, as from_raw_message decodes it
Parsed == from_raw_message(midi_in)

\* C13: a parsed input message is passed to the tuner if and only if its
\* channel is the in-channel and it is no PitchBendChange while the tuning
\* method is pitch-bend; it is passed as it was parsed.
C13_InputFilter ==
    call.op = "input" /\ Parsed # NoMessage =>
        /\ call.result = "Passed" <=>
              /\ Parsed.chan = in_channel
              /\ ~(Parsed.kind = "PitchBendChange" /\ creator.kind = "PitchBend")
        /\ call.result = "Passed" => handled = <<Parsed>>
        /\ call.result # "Passed" => handled = <<>>

\* a pitch bend on the in-channel was passed on by a tuner of another method
C13_Witness ==
    /\ call.op = "input" /\ call.result = "Passed"
    /\ Parsed.kind = "PitchBendChange" /\ creator.kind = "ChannelFineTuning"

\* the message types of the MIDI channel messages by the high nibble of the
\* status byte, and the number of data bytes of each
TypeOfNibble ==
    [n \in 8..14 |->
        CASE n = 8 -> "NoteOff" [] n = 9 -> "NoteOn" [] n = 10 -> "PolyphonicKeyPressure"
          [] n = 11 -> "ControlChange" [] n = 12 -> "ProgramChange"
          [] n = 13 -> "ChannelPressure" [] OTHER -> "PitchBendChange"]

DataBytesOf(kind) == IF kind \in {"ProgramChange", "ChannelPressure"} THEN 1 ELSE 2

\* C14: from_raw_message decodes a raw message by the layout of the MIDI
\* channel messages: the channel is the low nibble of the status byte, the
\* type its high nibble, the data the bytes that follow, the pitch-bend
\* value byte1 + 128 * byte2; it is None when the high nibble is no channel
\* message type or a data byte is missing.
C14_DecodesLayout ==
    call.op = "input" =>
        IF midi_in = <<>> THEN Parsed = NoMessage
        ELSE LET nibble == midi_in[1] \div 16
                 low == midi_in[1] - 16 * nibble
             IN  IF nibble \notin 8..14 THEN Parsed = NoMessage
                 ELSE LET kind == TypeOfNibble[nibble] IN
                      IF Len(midi_in) < 1 + DataBytesOf(kind) THEN Parsed = NoMessage
                      ELSE /\ Parsed.kind = kind
                           /\ Parsed.chan = low
                           /\ kind \in {"NoteOff", "NoteOn", "PolyphonicKeyPressure",
                                         "ControlChange"} =>
                                 Parsed.key = midi_in[2] /\ Parsed.val = midi_in[3]
                           /\ kind \in {"ProgramChange", "ChannelPressure"} =>
                                 Parsed.val = midi_in[2]
                           /\ kind = "PitchBendChange" =>
                                 Parsed.val = midi_in[2] + 128 * midi_in[3]

\* a pitch bend on channel 13 with data bytes 22 and 127 was decoded
C14_Witness ==
    /\ call.op = "input"
    /\ midi_in = <<237, 22, 127>>
    /\ Parsed = Msg("PitchBendChange", 13, None, 22 + 128 * 127)

-----------------------------------------------------------------------------
(* LF sources: src/microwave/src/magnetron/source.rs                       *)
(*                                                                         *)
(* Times and levels are integers; a value an automation returns is a       *)
(* rational [num, den] with den > 0, so that the division of the ramp is   *)
(* exact.  Phases are integers in units of 1 / PhaseUnit of a turn.        *)

MaxTime == 4
MaxBlocks == 3
PhaseUnit == 4

Times == 0..(MaxTime - 1)
Levels == {0 - 1, 0, 2}
InitialPhases == {0 - 1, 0, 1, PhaseUnit - 1, PhaseUnit, PhaseUnit + 2}
\* frequency * render_window_secs of one control block, in phase units
PhaseSteps == {0 - PhaseUnit - 1, 0 - 1, 1, PhaseUnit + 2}

Rat(num, den) ==
    IF den < 0 THEN [num |-> 0 - num, den |-> 0 - den] ELSE [num |-> num, den |-> den]
Whole(x) == [num |-> x, den |-> 1]
RatEq(a, b) == a.num * b.den = b.num * a.den

\* a ramp without the branch of the interpolation
Time_Step(start, end, from, to, curr_time) ==
    IF curr_time < end THEN Whole(from) ELSE Whole(to)

\* the automation of LfSourceExpr::Time at secs_since_pressed = curr_time
Time(start, end, from, to, curr_time) ==
    IF curr_time <= start /\ curr_time <= end THEN Whole(from)
    ELSE IF curr_time >= start /\ curr_time >= end THEN Whole(to)
    ELSE Rat(from * (end - start) + (to - from) * (curr_time - start), end - start)

\* f64::rem_euclid(1.0) on phase units
rem_euclid(x) == x % PhaseUnit

\* the phase create_oscillator_automation keeps after one control block
OscillatorPhase(phase, step) == rem_euclid(phase + step)

TimeInit ==
    magnetron \in [part : {"Time"}, start : Times, end : Times, from : Levels,
                   to : Levels, secs_since_pressed : {0}, at : {None},
                   value : {Whole(0)}]

OscillatorInit ==
    magnetron \in [part : {"Oscillator"}, phase : InitialPhases, blocks : {0},
                   signal_phase : {None}, evaluated : {FALSE}]

\* one control block of a voice reads the Time automation, then the
\* voice is older by one render window
LfTime ==
    /\ magnetron.part = "Time"
    /\ magnetron.secs_since_pressed <= MaxTime
    /\ magnetron' = [magnetron EXCEPT
            !.at = magnetron.secs_since_pressed,
            !.value = Time(magnetron.start, magnetron.end, magnetron.from,
                           magnetron.to, magnetron.secs_since_pressed),
            !.secs_since_pressed = @ + 1]
    /\ UNCHANGED <<target, handled, call, jitVars, aotVars, backend, liveVars>>

\* one control block reads the Oscillator automation: oscillator_fn is
\* called with the phase as it is, then the phase advances
LfOscillator(step) ==
    /\ magnetron.part = "Oscillator"
    /\ magnetron.blocks < MaxBlocks
    /\ magnetron' = [magnetron EXCEPT
            !.signal_phase = magnetron.phase,
            !.evaluated = TRUE,
            !.phase = OscillatorPhase(magnetron.phase, step),
            !.blocks = @ + 1]
    /\ UNCHANGED <<target, handled, call, jitVars, aotVars, backend, liveVars>>

-----------------------------------------------------------------------------
(* The waveform compiler: src/microwave/src/magnetron/mod.rs               *)

MaxStages == 3

\* variants of StageSpec a waveform is drawn from
StageKinds == {"Oscillator", "Waveguide", "Filter"}
EnvelopeNames == {"Piano", "Organ"}

\* StageSpec::use_creator: the stage compiled from one stage spec
StageUseCreator(spec) == [stage |-> "Internal", of |-> spec]

\* EnvelopeSpec::use_creator: the stage compiled from an envelope spec
EnvelopeUseCreator(spec) == [stage |-> "Envelope", of |-> spec]

\* a compiler that puts the envelope stage first
use_creator_EnvelopeFirst(waveform, envelopes) ==
    (IF waveform.envelope \in DOMAIN envelopes
     THEN <<EnvelopeUseCreator(envelopes[waveform.envelope])>> ELSE <<>>)
    \o [i \in 1..Len(waveform.stages) |-> StageUseCreator(waveform.stages[i])]

\* a compiler that falls back to an envelope of its own on a miss
use_creator_Fallback(waveform, envelopes) ==
    [i \in 1..Len(waveform.stages) |-> StageUseCreator(waveform.stages[i])]
    \o <<EnvelopeUseCreator(IF waveform.envelope \in DOMAIN envelopes
                            THEN envelopes[waveform.envelope] ELSE "Default")>>

\* WaveformSpec::use_creator
use_creator(waveform, envelopes) ==
    LET internal_stages ==
            [i \in 1..Len(waveform.stages) |-> StageUseCreator(waveform.stages[i])]
        external_stages ==
            IF waveform.envelope \in DOMAIN envelopes
            THEN <<EnvelopeUseCreator(envelopes[waveform.envelope])>>
            ELSE <<>>
    IN  internal_stages \o external_stages

WaveformSpecs ==
    [envelope : EnvelopeNames,
     stages : UNION {[1..n -> StageKinds] : n \in 0..MaxStages}]

\* the envelope registries: name -> EnvelopeSpec
EnvelopeRegistries ==
    {[name \in names |-> name] : names \in SUBSET EnvelopeNames}

WaveformInit ==
    magnetron \in [part : {"Waveform"}, waveform : WaveformSpecs,
                   envelopes : EnvelopeRegistries, compiled : {<<>>},
                   warned : {FALSE}, done : {FALSE}]

\* a call of WaveformSpec::use_creator: the stages it returns and whether
\* it logged the warning
WaveformUseCreator ==
    /\ magnetron.part = "Waveform"
    /\ ~magnetron.done
    /\ magnetron' = [magnetron EXCEPT
            !.compiled = use_creator(magnetron.waveform, magnetron.envelopes),
            !.warned = magnetron.waveform.envelope \notin DOMAIN magnetron.envelopes,
            !.done = TRUE]
    /\ UNCHANGED <<target, handled, call, jitVars, aotVars, backend, liveVars>>

-----------------------------------------------------------------------------
(* Deserialization of an LfSource: src/microwave/src/magnetron/source.rs   *)
(*                                                                         *)
(* An input is a value of the serde data model: [shape, num, name, field], *)
(* `name` the string or the tag of a map, `field` the inputs of the LF     *)
(* sources nested in a map (none or one).                                  *)

MaxDepth == 2

LfSourceUnits == {"WaveformPitch", "Wavelength"}
LfSourceExprs ==
    {"Add", "Mul", "Oscillator", "Envelope", "Time", "Property", "Control"}

Input(shape, num, name, field) ==
    [shape |-> shape, num |-> num, name |-> name, field |-> field]

Scalars ==
    {Input("f64", v, "", <<>>) : v \in {0, 5}}
    \cup {Input("i64", 10000, "", <<>>)}
    \cup {Input(shape, None, "", <<>>) : shape \in {"unit", "bool", "seq"}}
    \cup {Input("str", None, v, <<>>) : v \in LfSourceUnits \cup {"InvalidUnit"}}

RECURSIVE Inputs(_)
Inputs(depth) ==
    IF depth = 0 THEN Scalars
    ELSE LET nested == Inputs(depth - 1)
         IN  nested
             \cup {Input("map", None, "", <<>>)}
             \cup {Input("map", None, tag, <<field>>) :
                      tag \in LfSourceExprs \cup {"InvalidExpr"}, field \in nested}

Ok(variant, num, name, fields) ==
    [ok |-> TRUE, variant |-> variant, num |-> num, name |-> name,
     fields |-> fields, error |-> ""]
Err(error) ==
    [ok |-> FALSE, variant |-> "", num |-> None, name |-> "", fields |-> <<>>,
     error |-> error]

\* LfSourceVisitor::visit_f64
visit_f64(v) == Ok("Value", v, "", <<>>)

\* LfSourceVisitor::visit_str: LfSourceUnit::deserialize of the string
visit_str(v) ==
    IF v \in LfSourceUnits THEN Ok("Unit", None, v, <<>>)
    ELSE Err("unknown variant")

\* LfSourceVisitor::visit_map: LfSourceExpr::deserialize of the map, the
\* LF sources nested in it already deserialized
visit_map(tag, nested) ==
    IF tag = "" THEN Err("invalid type")
    ELSE IF tag \notin LfSourceExprs THEN Err("unknown variant")
    ELSE IF \E i \in 1..Len(nested) : ~nested[i].ok
         THEN nested[CHOOSE i \in 1..Len(nested) : ~nested[i].ok]
         ELSE Ok("Expr", None, tag, nested)

\* a visitor that takes an integer for a float
deserialize_any_IntegerAsFloat(input, nested) ==
    CASE input.shape \in {"f64", "i64"} -> visit_f64(input.num)
      [] input.shape = "str" -> visit_str(input.name)
      [] input.shape = "map" -> visit_map(input.name, nested)
      [] OTHER -> Err("invalid type")

\* deserialize_any with the LfSourceVisitor: the method of the shape, and
\* the default of serde's Visitor for the methods it does not implement
deserialize_any(input, nested) ==
    CASE input.shape = "f64" -> visit_f64(input.num)
      [] input.shape = "str" -> visit_str(input.name)
      [] input.shape = "map" -> visit_map(input.name, nested)
      [] OTHER -> Err("invalid type")

\* LfSource::deserialize
RECURSIVE deserialize(_)
deserialize(input) ==
    deserialize_any(input,
                    [i \in 1..Len(input.field) |-> deserialize(input.field[i])])

DeserializeInit ==
    magnetron \in {[part |-> "Deserialize", input |-> input, result |-> Err(""),
                    done |-> FALSE] : input \in Inputs(MaxDepth)}

\* the input is read as an LfSource
LfSourceDeserialize ==
    /\ magnetron.part = "Deserialize"
    /\ ~magnetron.done
    /\ magnetron' = [magnetron EXCEPT
            !.result = deserialize(magnetron.input),
            !.done = TRUE]
    /\ UNCHANGED <<target, handled, call, jitVars, aotVars, backend, liveVars>>

-----------------------------------------------------------------------------
(* Rendering: the buffer pool and MagnetronTest::process of                *)
(* src/microwave/src/magnetron/mod.rs                                      *)
(*                                                                         *)
(* A buffer is [storage, dirty]: the samples its memory holds and whether  *)
(* a stage wrote to it in this pass.  Samples are integers.                *)

MaxSamples == 2
MaxVoices == 2
MaxProcessCalls == 3

SampleCounts == 0..MaxSamples
RenderVelocities == {1, 2}
RenderPasses == UNION {[1..n -> RenderVelocities] : n \in 0..MaxVoices}

Zeros(num_samples) == [i \in 1..num_samples |-> 0]
Resize(storage, num_samples) ==
    [i \in 1..num_samples |-> IF i <= Len(storage) THEN storage[i] ELSE 0]

\* Magnetron::prepare for one buffer: it gets num_samples samples, zeroed
\* if asked for, and no stage has written to it yet
prepare(buffer, num_samples, zero_init) ==
    [storage |-> IF zero_init THEN Zeros(num_samples)
                 ELSE Resize(buffer.storage, num_samples),
     dirty |-> FALSE]

\* BufferWriter::read: a buffer no stage wrote to in this pass reads as silence
read(buffer) ==
    IF buffer.dirty THEN buffer.storage ELSE Zeros(Len(buffer.storage))

\* a stage adds its signal to what the pass has written to the buffer so far
write(buffer, signal) ==
    [storage |-> [i \in 1..Len(buffer.storage) |-> read(buffer)[i] + signal[i]],
     dirty |-> TRUE]

\* what the envelope stage of one voice of velocity v puts out
VoiceSignal(velocity, num_samples) == [i \in 1..num_samples |-> velocity * i]

\* the stage of MagnetronTest: every render pass that has a waveform is
\* rendered into the buffer
RECURSIVE RenderVoices(_, _, _)
RenderVoices(buffer, render_passes, waveforms) ==
    IF render_passes = <<>> \/ waveforms = 0 THEN buffer
    ELSE RenderVoices(write(buffer,
                            VoiceSignal(Head(render_passes), Len(buffer.storage))),
                      Tail(render_passes), waveforms - 1)

\* a harness that does not clear its results before it reads the buffers
MagnetronTestProcess_NoClear(test, num_samples, render_passes) ==
    LET l == RenderVoices(prepare(test.audio_out_l, num_samples, FALSE),
                          render_passes, test.waveforms)
        r == RenderVoices(prepare(test.audio_out_r, num_samples, FALSE),
                          render_passes, test.waveforms)
    IN  [test EXCEPT !.audio_out_l = l, !.audio_out_r = r,
                     !.result_l = @ \o read(l), !.result_r = @ \o read(r)]

\* MagnetronTest::process
MagnetronTestProcess(test, num_samples, render_passes) ==
    LET l == RenderVoices(prepare(test.audio_out_l, num_samples, FALSE),
                          render_passes, test.waveforms)
        r == RenderVoices(prepare(test.audio_out_r, num_samples, FALSE),
                          render_passes, test.waveforms)
    IN  [test EXCEPT !.audio_out_l = l, !.audio_out_r = r,
                     !.result_l = read(l), !.result_r = read(r)]

NewBuffer == [storage |-> <<>>, dirty |-> FALSE]

\* MagnetronTest::new with 0..MaxVoices waveforms
RenderInit ==
    magnetron \in [part : {"Render"}, waveforms : 0..MaxVoices,
                   audio_out_l : {NewBuffer}, audio_out_r : {NewBuffer},
                   result_l : {<<>>}, result_r : {<<>>},
                   num_samples : {0}, voices : {0}, calls : {0}]

\* a call of process: `voices` is the number of voices the call renders
RenderProcess(num_samples, render_passes) ==
    /\ magnetron.part = "Render"
    /\ magnetron.calls < MaxProcessCalls
    /\ magnetron' =
          [MagnetronTestProcess(magnetron, num_samples, render_passes) EXCEPT
              !.num_samples = num_samples,
              !.voices = IF Len(render_passes) < magnetron.waveforms
                         THEN Len(render_passes) ELSE magnetron.waveforms,
              !.calls = @ + 1]
    /\ UNCHANGED <<target, handled, call, jitVars, aotVars, backend, liveVars>>

-----------------------------------------------------------------------------
(* The amplitude of a waveform: src/microwave/src/magnetron/waveform.rs    *)
(*                                                                         *)
(* Amplitudes and rates are integers; a decay amount is a number of        *)
(* 1 / FadeUnit, and amplitude_change_rate_hz is kept times FadeUnit.      *)

FadeUnit == 2

Amplitudes == {0, 1, 2}
\* EnvelopeType::decay_rate_hz and release_rate_hz, not negative
EnvelopeTypes == [decay_rate_hz : {0, 1}, release_rate_hz : {0, 1, 3}]
\* decay amounts below 0, from 0 to 1 and above 1
DecayAmounts == {0 - 1, 0, 1, FadeUnit, 2 * FadeUnit}

\* WaveformSpec::create_waveform
create_waveform(amplitude, envelope_type) ==
    [envelope_type |-> envelope_type,
     curr_amplitude |-> amplitude,
     amplitude_change_rate_hz |->
         (0 - amplitude) * envelope_type.decay_rate_hz * FadeUnit]

\* Waveform::set_fade
set_fade(waveform, decay_amount) ==
    LET interpolation ==
            (FadeUnit - decay_amount) * waveform.envelope_type.release_rate_hz
            + decay_amount * waveform.envelope_type.decay_rate_hz
    IN  [waveform EXCEPT
            !.amplitude_change_rate_hz = (0 - waveform.curr_amplitude) * interpolation]

FadeInit ==
    magnetron \in {[part |-> "Fade",
                    waveform |-> create_waveform(amplitude, envelope_type),
                    decay_amount |-> None, released |-> FALSE] :
                   amplitude \in Amplitudes, envelope_type \in EnvelopeTypes}

\* the key of the waveform is released: set_fade is called
WaveformSetFade(decay_amount) ==
    /\ magnetron.part = "Fade"
    /\ ~magnetron.released
    /\ magnetron' = [magnetron EXCEPT
            !.waveform = set_fade(magnetron.waveform, decay_amount),
            !.decay_amount = decay_amount,
            !.released = TRUE]
    /\ UNCHANGED <<target, handled, call, jitVars, aotVars, backend, liveVars>>

-----------------------------------------------------------------------------
(* The parts of the Magnetron synthesizer, one per behaviour *)

MagnetronInit ==
    /\ target \in [first_channel : FirstChannels, num_channels : {1}]
    /\ handled = <<>>
    /\ call = Call("none", None, "Ok", None, None, None)
    /\ IdleJit
    /\ tuning = <<>>
    /\ aot_tuner = NoAotTuner
    /\ backend = NewBackend
    /\ pc = "idle"
    /\ queue = <<>>
    /\ written = <<>>
    /\ handed = <<>>
    /\ midi_in = <<>>
    /\ \/ TimeInit
       \/ OscillatorInit
       \/ WaveformInit
       \/ DeserializeInit
       \/ RenderInit
       \/ FadeInit

MagnetronNext ==
    \/ LfTime
    \/ \E step \in PhaseSteps : LfOscillator(step)
    \/ WaveformUseCreator
    \/ LfSourceDeserialize
    \/ \E num_samples \in SampleCounts, render_passes \in RenderPasses :
          RenderProcess(num_samples, render_passes)
    \/ \E decay_amount \in DecayAmounts : WaveformSetFade(decay_amount)

SpecMagnetron == MagnetronInit /\ [][MagnetronNext]_vars

\* the Time automation has been read at the time `at`
TimeRead == magnetron.part = "Time" /\ magnetron.at # None

\* C15: a Time{start, end, from, to} with start < end is `from` at and
\* before start, `to` at and after end, and in between the linear
\* interpolation from + (to - from) * (t - start) / (end - start)
C15_TimeRamp ==
    (TimeRead /\ magnetron.start < magnetron.end) =>
        LET t == magnetron.at
            start == magnetron.start
            end == magnetron.end
            from == magnetron.from
            to == magnetron.to
        IN  /\ t <= start => magnetron.value = Whole(from)
            /\ t >= end => magnetron.value = Whole(to)
            /\ (start < t /\ t < end) =>
                  /\ magnetron.value.den > 0
                  /\ magnetron.value.num * (end - start) =
                        (from * (end - start) + (to - from) * (t - start))
                            * magnetron.value.den

\* a ramp read strictly between start and end, a third of the way up
C15_Witness ==
    /\ TimeRead
    /\ magnetron.start = 0 /\ magnetron.end = 3 /\ magnetron.at = 1
    /\ magnetron.from = 0 - 1 /\ magnetron.to = 2
    /\ RatEq(magnetron.value, Whole(0))

\* C16: a Time{start, end, from, to} with start >= end is `from` while
\* t <= start and t <= end and `to` for every other t: it never returns an
\* interpolated value
C16_DegenerateRampIsStep ==
    (TimeRead /\ magnetron.start >= magnetron.end) =>
        IF magnetron.at <= magnetron.start /\ magnetron.at <= magnetron.end
        THEN magnetron.value = Whole(magnetron.from)
        ELSE magnetron.value = Whole(magnetron.to)

\* a ramp with start > end read between end and start: the value is the
\* interpolated one, neither `from` nor `to`
C16_Witness ==
    /\ TimeRead
    /\ magnetron.start = 2 /\ magnetron.end = 0 /\ magnetron.at = 1
    /\ magnetron.from = 0 /\ magnetron.to = 2
    /\ RatEq(magnetron.value, Whole(1))

\* C17: an Oscillator keeps its phase in [0, 1) at every evaluation, for
\* any initial phase, any frequency and any number of blocks: the phase
\* oscillator_fn is called with and the phase kept for the next block are
\* both at least 0 and below one turn
C17_PhaseInUnitInterval ==
    (magnetron.part = "Oscillator" /\ magnetron.evaluated) =>
        /\ 0 <= magnetron.signal_phase /\ magnetron.signal_phase < PhaseUnit
        /\ 0 <= magnetron.phase /\ magnetron.phase < PhaseUnit

\* the first block of an oscillator whose initial phase is one and a half
\* turns: oscillator_fn was called with that phase
C17_Witness ==
    /\ magnetron.part = "Oscillator"
    /\ magnetron.blocks = 1
    /\ magnetron.signal_phase = PhaseUnit + 2

\* WaveformSpec::use_creator has returned
WaveformCompiled == magnetron.part = "Waveform" /\ magnetron.done

\* the waveform's envelope name is in the envelope registry
EnvelopeResolves == magnetron.waveform.envelope \in DOMAIN magnetron.envelopes

\* C18: use_creator never reorders stages: the compiled list is the
\* spec's stages in their declared order, followed by the envelope stage
\* as the last element when the envelope name resolves
C18_StagesInDeclaredOrder ==
    WaveformCompiled =>
        LET stages == magnetron.waveform.stages
            compiled == magnetron.compiled
            n == Len(stages)
        IN  /\ Len(compiled) >= n
            /\ \A i \in 1..n :
                  compiled[i].stage = "Internal" /\ compiled[i].of = stages[i]
            /\ EnvelopeResolves =>
                  /\ Len(compiled) = n + 1
                  /\ compiled[n + 1].stage = "Envelope"
                  /\ compiled[n + 1].of =
                        magnetron.envelopes[magnetron.waveform.envelope]

\* three stages declared in an order that is not the alphabetical one,
\* compiled with an envelope that resolves
C18_Witness ==
    /\ WaveformCompiled
    /\ EnvelopeResolves
    /\ magnetron.waveform.stages = <<"Waveguide", "Oscillator", "Filter">>
    /\ Len(magnetron.compiled) = 4

\* C19: when the envelope name is not in the registry, use_creator logs a
\* warning and returns exactly the spec's own stages: no envelope stage,
\* as many stages as declared
C19_MissingEnvelopeOmitted ==
    (WaveformCompiled /\ ~EnvelopeResolves) =>
        /\ magnetron.warned
        /\ Len(magnetron.compiled) = Len(magnetron.waveform.stages)
        /\ \A i \in 1..Len(magnetron.compiled) :
              magnetron.compiled[i] = StageUseCreator(magnetron.waveform.stages[i])
        /\ \A i \in 1..Len(magnetron.compiled) :
              magnetron.compiled[i].stage # "Envelope"

\* a waveform of two stages naming an envelope that the registry, which
\* is not empty, does not hold
C19_Witness ==
    /\ WaveformCompiled
    /\ magnetron.waveform.envelope = "Organ"
    /\ DOMAIN magnetron.envelopes = {"Piano"}
    /\ magnetron.warned
    /\ Len(magnetron.waveform.stages) = 2
    /\ Len(magnetron.compiled) = 2

\* an LfSource has been read from the input
Deserialized == magnetron.part = "Deserialize" /\ magnetron.done

\* every map of the input names a known expression variant and every
\* input nested in it is a float, a unit string or such a map
RECURSIVE WellFormed(_)
WellFormed(input) ==
    \/ input.shape = "f64"
    \/ input.shape = "str" /\ input.name \in LfSourceUnits
    \/ /\ input.shape = "map"
       /\ input.name \in LfSourceExprs
       /\ \A i \in 1..Len(input.field) : WellFormed(input.field[i])

\* C20: deserializing an LfSource accepts exactly three shapes: a float
\* (giving Value), a string naming a unit, a tagged map naming a known
\* expression variant; an integer, a missing (unit) value, an unknown unit
\* string, an unknown expression variant and every other shape are errors
C20_AcceptsThreeShapes ==
    Deserialized =>
        LET input == magnetron.input
            result == magnetron.result
        IN  /\ result.ok => input.shape \in {"f64", "str", "map"}
            /\ input.shape = "f64" =>
                  result.ok /\ result.variant = "Value" /\ result.num = input.num
            /\ (input.shape = "str" /\ input.name \in LfSourceUnits) =>
                  result.ok /\ result.variant = "Unit" /\ result.name = input.name
            /\ (input.shape = "map" /\ WellFormed(input)) =>
                  result.ok /\ result.variant = "Expr" /\ result.name = input.name
            /\ input.shape \in {"i64", "unit", "bool", "seq"} => ~result.ok
            /\ (input.shape = "str" /\ input.name \notin LfSourceUnits) => ~result.ok
            /\ (input.shape = "map" /\ input.name \notin LfSourceExprs) => ~result.ok
            /\ result.ok <=> WellFormed(input)

\* the integer 10000 as the LF source of a Control expression is rejected
C20_Witness ==
    /\ Deserialized
    /\ magnetron.input.shape = "map"
    /\ magnetron.input.name = "Control"
    /\ magnetron.input.field = <<Input("i64", 10000, "", <<>>)>>
    /\ ~magnetron.result.ok
    /\ magnetron.result.error = "invalid type"

\* process has been called on the test synthesizer
Rendered == magnetron.part = "Render" /\ magnetron.calls > 0

C22_FadeNeverIncreases ==
    (magnetron.part = "Fade" /\ magnetron.released
        /\ magnetron.waveform.curr_amplitude >= 0) =>
        magnetron.waveform.amplitude_change_rate_hz <= 0

\* set_fade(2.0) on a waveform of amplitude 1 whose envelope releases at
\* 3 Hz and does not decay: the amplitude rises at 3 Hz
C22_Witness ==
    /\ magnetron.part = "Fade" /\ magnetron.released
    /\ magnetron.decay_amount = 2 * FadeUnit
    /\ magnetron.waveform.curr_amplitude = 1
    /\ magnetron.waveform.envelope_type =
          [decay_rate_hz |-> 0, release_rate_hz |-> 3]
    /\ magnetron.waveform.amplitude_change_rate_hz = 3 * FadeUnit

-----------------------------------------------------------------------------
(* LiveOptions::run up to the creation of the tuner:                       *)
(* src/tune-cli/src/live.rs                                                *)

\* the values of --in-chan tried
InChannels == {0, 15, 16, 255}

NoTarget == [first_channel |-> None, num_channels |-> None]

OptionsInit ==
    /\ target = NoTarget
    /\ handled = <<>>
    /\ call = Call("none", None, "Ok", None, None, None)
    /\ IdleJit
    /\ tuning = <<>>
    /\ aot_tuner = NoAotTuner
    /\ IdleOther

\* LiveOptions::run: validate_channels()? returns the error before the
\* handler and the tuner are made; otherwise the mode's run goes on with a
\* target of the output channels
OptionsRun(num_out_channels, in_chan, out_channel) ==
    /\ pc = "idle"
    /\ LET result == validate_channels(num_out_channels, in_chan, out_channel)
       IN  /\ call' = [op |-> "run", result |-> result,
                       num_out_channels |-> num_out_channels,
                       in_channel |-> in_chan, out_channel |-> out_channel]
           /\ pc' = IF result = "Ok" THEN "run" ELSE "failed"
           /\ target' = IF result = "Ok"
                        THEN [first_channel |-> out_channel,
                              num_channels |-> num_out_channels]
                        ELSE target
    /\ UNCHANGED <<handled, jitVars, aotVars, backend, queue, written, handed,
                   midi_in, magnetron>>

OptionsNext ==
    \E num_out_channels \in NumOutChannels, in_chan \in InChannels,
       out_channel \in OutChannels :
        OptionsRun(num_out_channels, in_chan, out_channel)

SpecOptions == OptionsInit /\ [][OptionsNext]_vars

\* C23: validate_channels accepts the options if and only if
\* num_out_channels <= 16, in_channel < 16 and out_channel < 16; otherwise
\* run returns an error, the first violated condition in the order channel
\* count, input channel, output channel, and no tuner is created
C23_ValidatesChannels ==
    call.op = "run" =>
        LET count_ok == call.num_out_channels <= 16
            in_ok == call.in_channel < 16
            out_ok == call.out_channel < 16
        IN  /\ call.result = "Ok" <=> (count_ok /\ in_ok /\ out_ok)
            /\ ~count_ok => call.result = "Cannot use more than 16 channels"
            /\ (count_ok /\ ~in_ok) =>
                  call.result = "Input channel is not in the range [0..16)"
            /\ (count_ok /\ in_ok /\ ~out_ok) =>
                  call.result = "Output channel is not in the range [0..16)"
            /\ call.result # "Ok" =>
                  /\ pc = "failed"
                  /\ target = NoTarget
                  /\ aot_tuner = NoAotTuner
                  /\ handled = <<>>
            /\ call.result = "Ok" => pc = "run"

\* both the input and the output channel are out of range: the error
\* names the input channel
C23_Witness ==
    /\ call.op = "run"
    /\ call.num_out_channels = 16
    /\ call.in_channel = 16
    /\ call.out_channel = 16
    /\ call.result = "Input channel is not in the range [0..16)"
    /\ pc = "failed"

-----------------------------------------------------------------------------
(* Notes and fingers of MidiOutBackend, checked under SpecBackend *)

\* the ahead-of-time tuner has a MIDI note for the degree
Audible(degree) ==
    /\ degree \in DOMAIN aot_tuner.map
    /\ CheckedMidiNumber(aot_tuner.map[degree].note) # None

\* the last note event emitted for the degree is a NoteOn
DegreeSounding(snd, degree) == \E s \in snd : s.key = degree

\* the last call lifted a finger and emitted a NoteOff only if the tracker
\* reported that the last finger had left the location
LastFingerOnly ==
    (/\ call.op \in {"stop", "update_pitch"}
     /\ \E i \in 1..Len(handled) : handled[i].kind = "NoteOff") =>
        call.result = "KeyReleased"

\* the last call pressed a degree that a finger was on already: it emitted
\* NoteOff and then NoteOn for it, if it emitted anything
Retriggered ==
    (call.op = "start" /\ call.result = "KeyAlreadyPressed" /\ handled # <<>>) =>
        /\ Len(handled) = 2
        /\ handled[1].kind = "NoteOff" /\ handled[2].kind = "NoteOn"
        /\ handled[1].chan = handled[2].chan /\ handled[1].key = handled[2].key

\* C24 as stated: with an ahead-of-time tuner every scale degree is
\* sounding if and only if at least one finger is placed on it
C24_SoundingIffFinger ==
    backend.tuner = "Aot" =>
        \A degree \in Keys :
            DegreeSounding(sounding, degree)
                <=> NumFingersAt(backend.keypress_tracker, degree) > 0

\* C24: with an ahead-of-time tuner, a scale degree the tuner has a MIDI
\* note for is sounding if and only if at least one finger is placed on
\* it, and a degree it has none for never sounds; stop and update_pitch
\* emit the NoteOff of a degree only when the last finger has left it, and
\* pressing an already-pressed degree emits NoteOff then NoteOn for it
C24_AudibleSoundingIffFinger ==
    backend.tuner = "Aot" =>
        /\ \A degree \in Keys :
              /\ Audible(degree) =>
                    (DegreeSounding(sounding, degree)
                        <=> NumFingersAt(backend.keypress_tracker, degree) > 0)
              /\ ~Audible(degree) => ~DegreeSounding(sounding, degree)
        /\ LastFingerOnly
        /\ Retriggered
        /\ Cardinality(sounding) <= MaxKeys

\* a second finger was placed on a sounding degree: NoteOff and NoteOn
\* were emitted, both fingers are on it and it sounds
C24_Witness ==
    /\ backend.tuner = "Aot"
    /\ call.op = "start" /\ call.result = "KeyAlreadyPressed"
    /\ Len(handled) = 2
    /\ \E degree \in Keys :
          /\ NumFingersAt(backend.keypress_tracker, degree) = 2
          /\ DegreeSounding(sounding, degree)

\* ---- Replacing the tuning of MidiOutBackend ----

\* the step is a set_tuning or set_no_tuning that destroyed an
\* ahead-of-time tuner
ReplacedAot ==
    /\ backend.tuner = "Aot"
    /\ call'.op \in {"set_tuning", "set_no_tuning"}
    /\ call'.stopped = Released(backend)

\* the pressed locations the old tuner has a MIDI note for
PressedAudible ==
    {i \in 1..Len(pressed_locations(backend.keypress_tracker)) :
        Audible(pressed_locations(backend.keypress_tracker)[i])}

\* the first n messages are NoteOffs, the messages after them are not
NoteOffsFirst(msgs, n) ==
    /\ Len(msgs) >= n
    /\ \A i \in 1..Len(msgs) : (msgs[i].kind = "NoteOff") <=> (i <= n)

\* C25 as stated: replacing the tuning in AOT mode emits a NoteOff for
\* every pressed location before any message of the new tuning
C25_NoteOffForEveryPressed ==
    [][ReplacedAot => NoteOffsFirst(handled', Released(backend))]_vars

\* C25: replacing the tuning in AOT mode emits a NoteOff, on its channel
\* and note, for every pressed location the old tuner has a MIDI note for,
\* before any message of the new tuning, and no note is left sounding
C25_NoteOffForEveryAudible ==
    [][ReplacedAot =>
          /\ NoteOffsFirst(handled', Cardinality(PressedAudible))
          /\ \A i \in PressedAudible :
                LET location == pressed_locations(backend.keypress_tracker)[i]
                IN  \E j \in 1..Cardinality(PressedAudible) :
                        /\ handled'[j].chan =
                              midi_channel(target, aot_tuner.map[location].channel)
                        /\ handled'[j].key = aot_tuner.map[location].note
          /\ sounding' = {}
          /\ backend'.keypress_tracker = <<>>]_vars

\* a tuning was set while a finger was on a degree of the old tuning: the
\* NoteOff is followed by the messages of the new tuning
C25_Witness ==
    /\ call.op = "set_tuning" /\ call.result = "Ok"
    /\ call.stopped \in 1..MaxKeys
    /\ Len(handled) > 1
    /\ handled[1].kind = "NoteOff"
    /\ handled[Len(handled)].kind # "NoteOff"

\* ---- NoteOn and NoteOff of JitMidiTuner ----

\* the entries of the keys that hold a channel
ActiveEntries(ps) ==
    UNION {{ps[g].active[i] : i \in 1..Len(ps[g].active)} : g \in DOMAIN ps}

\* every channel of every pool is Free
AllFree(ps) ==
    \A g \in DOMAIN ps :
        /\ ps[g].active = <<>>
        /\ Range(ps[g].free) = {i - 1 : i \in 1..target.num_channels}
        /\ Len(ps[g].free) = target.num_channels

\* the i-th message of the step is a NoteOff of a note that sounded when
\* it was emitted
Matched(i) ==
    \E s \in SoundingAfterAll(sounding, None, SubSeq(handled', 1, i - 1)) :
        s.chan = handled'[i].chan /\ s.note = handled'[i].key

UnregisteredKeyCall ==
    /\ call'.op \in {"note_off", "update_pitch", "key_pressure"}
    /\ call'.key \notin RegisteredKeys(pools)

\* C27: note_off, update_pitch and key_pressure of a JitMidiTuner for a key
\* that is not registered find nothing, emit no message and leave the
\* registered keys, the channels and the tuning state as they were
C27_UnregisteredKeyNoEffect ==
    [][UnregisteredKeyCall =>
          /\ call'.result = "NotFound"
          /\ handled' = <<>>
          /\ pools' = pools
          /\ creator' = creator
          /\ sounding' = sounding
          /\ UNCHANGED <<target, pooling_mode>>]_vars

\* update_pitch was called for a key without a channel while another key
\* was sounding on its tuned channel
C27_Witness ==
    /\ call.op = "update_pitch" /\ call.result = "NotFound"
    /\ call.key \notin RegisteredKeys(pools)
    /\ RegisteredKeys(pools) # {}
    /\ sounding # {}
    /\ handled = <<>>

\* ---- Failing constructors of AotMidiTuner ----

\* C28: when a constructor of AotMidiTuner fails because the tuning
\* requires too many channels, no message has been handed to the handler
C28_FailedConstructorSilent ==
    (call.op = "new" /\ call.result = "Err") =>
        /\ Required(aot_tuner.kind) > target.num_channels
        /\ handled = <<>>

\* a constructor failed on a tuning whose setup would have had messages
\* for the channels the target has
C28_Witness ==
    /\ call.op = "new" /\ call.result = "Err"
    /\ aot_tuner.state = "failed"
    /\ handled = <<>>
    /\ SetupAll(target, aot_tuner.kind, TRUE, 0,
                apply_tuning(aot_tuner.kind, tuning).detunings, 0) # <<>>

-----------------------------------------------------------------------------
(* MidiTarget::tuning_program, src/src/tuner/midi.rs, with the            *)
(* --tun-pg option of src/tune-cli/src/live.rs                            *)

\* the values of --tun-pg tried, a u8
FirstTuningPrograms == {0, 1, 112, 113, 127, 128, 240, 241, 254, 255}

\* the channel counts validate_channels lets pass
TunerChannelCounts == 1..16

\* the u8 addition of tuning_program leaves the range of u8
tuning_program_overflows(tuner_channel, first_tuning_program) ==
    tuner_channel + first_tuning_program > 255

TuningProgramInit ==
    /\ target \in [first_channel : {0}, num_channels : TunerChannelCounts]
    /\ pooling_mode = "Stop"
    /\ creator \in [kind : {"SingleNoteTuningChange"}, encodes : {TRUE},
                     first_tuning_program : FirstTuningPrograms,
                     octave_tunings : {<<>>}]
    /\ pools = <<>>
    /\ sounding = {}
    /\ tuning = <<>>
    /\ aot_tuner = NoAotTuner
    /\ handled = <<>>
    /\ call = Call("none", None, "Ok", None, None, None)
    /\ IdleOther

\* target.tuning_program(tuner_channel, first_tuning_program) for a channel
\* of the target: an addition that overflows panics in a build with
\* overflow checks and wraps in a build without
TuningProgram(tuner_channel, overflow_checks) ==
    /\ tuner_channel < target.num_channels
    /\ LET overflow ==
               tuning_program_overflows(tuner_channel, creator.first_tuning_program)
           panicked == overflow /\ overflow_checks
       IN  call' = [op |-> "tuning_program", tuner_channel |-> tuner_channel,
                    first_tuning_program |-> creator.first_tuning_program,
                    overflow |-> overflow, panicked |-> panicked,
                    result |-> IF panicked THEN None
                               ELSE tuning_program(tuner_channel,
                                                   creator.first_tuning_program)]
    /\ UNCHANGED <<target, handled, jitVars, aotVars, otherVars>>

TuningProgramNext ==
    \E tuner_channel \in 0..15, overflow_checks \in BOOLEAN :
        TuningProgram(tuner_channel, overflow_checks)

SpecTuningProgram == TuningProgramInit /\ [][TuningProgramNext]_vars

\* C29 as stated: for every tuner channel i < num_channels <= 16 and every
\* first_tuning_program in 0..255, tuning_program returns
\* (i + first_tuning_program) mod 128, a value in 0..127, and its 8-bit
\* addition does not overflow
C29_NoOverflow ==
    call.op = "tuning_program" =>
        /\ ~call.overflow
        /\ call.result = (call.tuner_channel + call.first_tuning_program) % 128
        /\ call.result \in 0..127

\* where tuning_program returns, it returns (i + first_tuning_program)
\* mod 128: 256 is a multiple of 128
TuningProgramWrapped ==
    (call.op = "tuning_program" /\ ~call.panicked) =>
        /\ call.result = (call.tuner_channel + call.first_tuning_program) % 128
        /\ call.result \in 0..127

\* the second channel of a target with --tun-pg 255: 1 + 255 overflows
C29_Witness ==
    /\ call.op = "tuning_program"
    /\ call.tuner_channel = 1 /\ call.first_tuning_program = 255
    /\ call.overflow /\ call.panicked

-----------------------------------------------------------------------------
(* MidiOutBackend::program_change, checked under SpecBackend *)

\* the step is a program_change
ProgramChanged ==
    /\ call'.op = "program_change"
    /\ call' # call \/ backend' # backend

\* the messages of the step are a ProgramChange with the new program on
\* every channel of the target
ProgramBroadcast ==
    /\ Len(handled') = target.num_channels
    /\ \A i \in 1..Len(handled') :
          /\ handled'[i].kind = "ProgramChange"
          /\ handled'[i].chan = midi_channel(target, i - 1)
          /\ handled'[i].val = backend'.curr_program

\* curr_program stays in 0..127 and moves by one, around the ends, without
\* an underflow
ProgramWraps ==
    /\ call'.result = "Ok"
    /\ backend'.curr_program \in 0..127
    /\ call'.key = 1 =>
          backend'.curr_program
            = IF backend.curr_program = 127 THEN 0 ELSE backend.curr_program + 1
    /\ call'.key = 0 - 1 =>
          backend'.curr_program
            = IF backend.curr_program = 0 THEN 127 ELSE backend.curr_program - 1

\* C30 as stated: program_change keeps curr_program in 0..127, wraps around
\* in both directions without underflow, and every call broadcasts a
\* ProgramChange with the new program
C30_AlwaysBroadcasts ==
    [][ProgramChanged => (ProgramWraps /\ ProgramBroadcast)]_vars

\* C30: program_change keeps curr_program in 0..127 and wraps around in
\* both directions without underflow; a call made while the backend has a
\* tuner (Jit or Aot) broadcasts a ProgramChange with the new program on
\* every channel, a call made while it has none sends nothing
C30_BroadcastsWithTuner ==
    [][ProgramChanged =>
          /\ ProgramWraps
          /\ backend.tuner \in {"Jit", "Aot"} => ProgramBroadcast
          /\ backend.tuner \notin {"Jit", "Aot"} => handled' = <<>>]_vars

\* program 0 was decremented while a tuner was set: 127 on every channel
C30_Witness ==
    /\ call.op = "program_change" /\ call.key = 0 - 1
    /\ backend.curr_program = 127
    /\ backend.tuner \in {"Jit", "Aot"}
    /\ Len(handled) = target.num_channels
    /\ \A i \in 1..Len(handled) :
          handled[i].kind = "ProgramChange" /\ handled[i].val = 127

====
